---------------------------- MODULE Spec2Model ----------------------------
(***************************************************************************)
(* Pong: the Engine of src/Pong.py (paddles, ball, sampled-perimeter       *)
(* collision detection, scoring) and the Controller that drives it from a  *)
(* timer and from key and menu events.                                     *)
(*                                                                         *)
(* Players are 0 and 1 as in the source.  A point or a position is the     *)
(* tuple <<x, y>>; x grows to the right and y grows downwards.             *)
(***************************************************************************)
EXTENDS Integers, Sequences, FiniteSets, TLC

(***************************************************************************)
(* Module constants of src/Pong.py.                                        *)
(***************************************************************************)
WIDTH == 1500
HEIGHT == 700
BALL_DIAMETER == 40
BALL_RADIUS == BALL_DIAMETER \div 2
PADDLE_WIDTH == 60
PADDLE_MOVE_PIXELS == 15

(***************************************************************************)
(* Fields of Engine that are set in __init__ and never assigned again.     *)
(***************************************************************************)
board_width == WIDTH
board_height == HEIGHT
paddle_sizes == [player \in 0..1 |-> 120]
ball_directions ==
    { <<1, 0>>, <<1, -1>>, <<1, 1>>, <<-1, 0>>, <<-1, -1>>, <<-1, 1>> }
ball_move_amounts == { <<x, y>> : x \in 10..15, y \in 5..15 }

(***************************************************************************)
(* The element of a set of one element.  For a value v that an expression  *)
(* uses more than once, The({ expression : x \in {v} }) computes v once,   *)
(* as the assignment of v to a local variable does.                        *)
(***************************************************************************)
The(singleton) == CHOOSE value \in singleton : TRUE

Abs(n) == IF n < 0 THEN -n ELSE n
Min(a, b) == IF a < b THEN a ELSE b
Max(a, b) == IF a > b THEN a ELSE b

(***************************************************************************)
(* Geometry sampler.                                                       *)
(*                                                                         *)
(* get_circle_points evaluates int(center + radius * cos(theta)) and       *)
(* int(center + radius * sin(theta)) in IEEE double arithmetic for         *)
(* number_points + 1 equally spaced angles.  The tables below hold, for    *)
(* each call made by the program, the values radius * cos(theta) and       *)
(* radius * sin(theta) of those angles, one entry <<lo, hi, n, a>> per     *)
(* coordinate: lo and hi are the floor and the ceiling of the double, n is *)
(* the integer nearest to it and a is the least magnitude of center + n    *)
(* from which the double addition rounds the sum to that integer (0 when   *)
(* the addition never does so for the coordinates of the board).  Entries  *)
(* of the Generic tables are pairs <<lo_x, lo_y>> standing for             *)
(* <<lo_x, lo_x + 1, lo_x, 0>> and <<lo_y, lo_y + 1, lo_y, 0>>.  Angles    *)
(* that give equal entries appear once, as the source collects the points  *)
(* into a set.                                                             *)
(***************************************************************************)
Full20Generic ==
    { <<-20, -7>>, <<-20, -6>>, <<-20, -5>>, <<-20, -4>>, <<-20, -3>>, <<-20, -2>>, <<-20, -1>>, <<-20, 0>>,
      <<-20, 1>>, <<-20, 2>>, <<-20, 3>>, <<-20, 4>>, <<-20, 5>>, <<-20, 6>>, <<-19, -9>>, <<-19, -8>>,
      <<-19, -7>>, <<-19, 6>>, <<-19, 7>>, <<-19, 8>>, <<-18, -11>>, <<-18, -10>>, <<-18, -9>>, <<-18, 8>>,
      <<-18, 9>>, <<-18, 10>>, <<-17, -12>>, <<-17, -11>>, <<-17, 10>>, <<-17, 11>>, <<-16, -14>>, <<-16, -13>>,
      <<-16, 12>>, <<-16, 13>>, <<-15, -15>>, <<-15, -14>>, <<-15, 13>>, <<-15, 14>>, <<-14, -16>>, <<-14, -15>>,
      <<-14, 14>>, <<-14, 15>>, <<-13, -16>>, <<-13, 15>>, <<-12, -17>>, <<-12, 16>>, <<-11, -18>>, <<-11, -17>>,
      <<-11, 16>>, <<-11, 17>>, <<-10, -18>>, <<-10, 17>>, <<-9, -19>>, <<-9, -18>>, <<-9, 17>>, <<-9, 18>>,
      <<-8, -19>>, <<-8, 18>>, <<-7, -20>>, <<-7, -19>>, <<-7, 18>>, <<-7, 19>>, <<-6, -20>>, <<-6, 19>>,
      <<-5, -20>>, <<-5, 19>>, <<-4, -20>>, <<-4, 19>>, <<-3, -20>>, <<-3, 19>>, <<-2, -20>>, <<-2, 19>>,
      <<-1, -20>>, <<-1, 19>>, <<0, -20>>, <<0, 19>>, <<1, -20>>, <<1, 19>>, <<2, -20>>, <<2, 19>>,
      <<3, -20>>, <<3, 19>>, <<4, -20>>, <<4, 19>>, <<5, -20>>, <<5, 19>>, <<6, -20>>, <<6, -19>>,
      <<6, 18>>, <<6, 19>>, <<7, -19>>, <<7, 18>>, <<8, -19>>, <<8, -18>>, <<8, 17>>, <<8, 18>>,
      <<9, -18>>, <<9, 17>>, <<10, -18>>, <<10, -17>>, <<10, 16>>, <<10, 17>>, <<11, -17>>, <<11, 16>>,
      <<12, -16>>, <<12, 15>>, <<13, -16>>, <<13, -15>>, <<13, 14>>, <<13, 15>>, <<14, -15>>, <<14, -14>>,
      <<14, 13>>, <<14, 14>>, <<15, -14>>, <<15, -13>>, <<15, 12>>, <<15, 13>>, <<16, -12>>, <<16, -11>>,
      <<16, 10>>, <<16, 11>>, <<17, -11>>, <<17, -10>>, <<17, -9>>, <<17, 8>>, <<17, 9>>, <<17, 10>>,
      <<18, -9>>, <<18, -8>>, <<18, -7>>, <<18, 6>>, <<18, 7>>, <<18, 8>>, <<19, -7>>, <<19, -6>>,
      <<19, -5>>, <<19, -4>>, <<19, -3>>, <<19, -2>>, <<19, -1>>, <<19, 0>>, <<19, 1>>, <<19, 2>>,
      <<19, 3>>, <<19, 4>>, <<19, 5>>, <<19, 6>> }

Full20Special ==
    { << <<-20, -20, -20, 0>>, <<0, 1, 0, 33>> >>,
      << <<-18, -17, -18, 0>>, <<-11, -10, -10, 17>> >>,
      << <<-18, -17, -18, 0>>, <<9, 10, 10, 17>> >>,
      << <<-11, -10, -10, 129>>, <<-18, -17, -18, 0>> >>,
      << <<-10, -9, -10, 33>>, <<17, 18, 17, 0>> >>,
      << <<-1, 0, 0, 65>>, <<-20, -20, -20, 0>> >>,
      << <<0, 1, 0, 17>>, <<20, 20, 20, 0>> >>,
      << <<10, 11, 10, 17>>, <<-18, -17, -18, 0>> >>,
      << <<10, 11, 10, 17>>, <<17, 18, 17, 0>> >>,
      << <<17, 18, 17, 0>>, <<-11, -10, -10, 129>> >>,
      << <<17, 18, 17, 0>>, <<9, 10, 10, 17>> >>,
      << <<20, 20, 20, 0>>, <<-1, 0, 0, 65>> >>,
      << <<20, 20, 20, 0>>, <<0, 0, 0, 0>> >> }

ArcTL10Generic ==
    { <<-10, 0>>, <<-10, 1>>, <<-10, 2>>, <<-10, 3>>, <<-10, 4>>, <<-9, 4>>, <<-9, 5>>, <<-8, 6>>,
      <<-8, 7>>, <<-7, 7>>, <<-6, 8>>, <<-5, 8>>, <<-5, 9>>, <<-4, 9>>, <<-3, 9>>, <<-2, 9>>,
      <<-1, 9>> }

ArcTL10Special ==
    { << <<-10, -10, -10, 0>>, <<0, 1, 0, 17>> >>,
      << <<-9, -8, -9, 0>>, <<5, 6, 5, 33>> >>,
      << <<-5, -4, -5, 17>>, <<8, 9, 8, 0>> >>,
      << <<0, 1, 0, 9>>, <<10, 10, 10, 0>> >> }

ArcTR10Generic ==
    { <<0, 9>>, <<1, 9>>, <<2, 9>>, <<3, 9>>, <<4, 8>>, <<4, 9>>, <<5, 8>>, <<6, 7>>,
      <<7, 6>>, <<7, 7>>, <<8, 4>>, <<8, 5>>, <<9, 0>>, <<9, 1>>, <<9, 2>>, <<9, 3>>,
      <<9, 4>> }

ArcTR10Special ==
    { << <<0, 1, 0, 9>>, <<10, 10, 10, 0>> >>,
      << <<5, 6, 5, 9>>, <<8, 9, 8, 0>> >>,
      << <<8, 9, 8, 0>>, <<4, 5, 5, 9>> >>,
      << <<10, 10, 10, 0>>, <<0, 0, 0, 0>> >> }

ArcBR10Generic ==
    { <<0, -10>>, <<1, -10>>, <<2, -10>>, <<3, -10>>, <<4, -10>>, <<4, -9>>, <<5, -9>>, <<6, -8>>,
      <<7, -8>>, <<7, -7>>, <<8, -6>>, <<8, -5>>, <<9, -5>>, <<9, -4>>, <<9, -3>>, <<9, -2>>,
      <<9, -1>> }

ArcBR10Special ==
    { << <<0, 1, 0, 9>>, <<-10, -10, -10, 0>> >>,
      << <<4, 5, 5, 9>>, <<-9, -8, -9, 0>> >>,
      << <<8, 9, 8, 0>>, <<-5, -5, -5, 0>> >>,
      << <<10, 10, 10, 0>>, <<0, 0, 0, 0>> >> }

ArcBL10Generic ==
    { <<-10, -5>>, <<-10, -4>>, <<-10, -3>>, <<-10, -2>>, <<-10, -1>>, <<-9, -6>>, <<-9, -5>>, <<-8, -8>>,
      <<-8, -7>>, <<-7, -8>>, <<-6, -9>>, <<-5, -10>>, <<-5, -9>>, <<-4, -10>>, <<-3, -10>>, <<-2, -10>>,
      <<-1, -10>> }

ArcBL10Special ==
    { << <<-10, -10, -10, 0>>, <<0, 1, 0, 17>> >>,
      << <<-9, -8, -9, 0>>, <<-5, -4, -5, 33>> >>,
      << <<-6, -5, -5, 65>>, <<-9, -8, -9, 0>> >>,
      << <<-1, 0, 0, 33>>, <<-10, -10, -10, 0>> >> }

(***************************************************************************)
(* The tables of the calls made by src/main.py, which samples the ball     *)
(* with 72 points and each arc of a paddle with 15.                        *)
(***************************************************************************)
Full20By72Generic ==
    { <<-20, -6>>, <<-20, -4>>, <<-20, -2>>, <<-20, 1>>, <<-20, 3>>, <<-20, 5>>, <<-19, -9>>, <<-19, -7>>,
      <<-19, 6>>, <<-19, 8>>, <<-17, -12>>, <<-17, 11>>, <<-16, -13>>, <<-16, 12>>, <<-15, -15>>, <<-15, 14>>,
      <<-13, -16>>, <<-13, 15>>, <<-12, -17>>, <<-12, 16>>, <<-9, -19>>, <<-9, 18>>, <<-7, -19>>, <<-7, 18>>,
      <<-6, -20>>, <<-6, 19>>, <<-4, -20>>, <<-4, 19>>, <<-2, -20>>, <<-2, 19>>, <<1, -20>>, <<1, 19>>,
      <<3, -20>>, <<3, 19>>, <<5, -20>>, <<5, 19>>, <<6, -19>>, <<6, 18>>, <<8, -19>>, <<8, 18>>,
      <<11, -17>>, <<11, 16>>, <<12, -16>>, <<12, 15>>, <<14, -15>>, <<14, 14>>, <<15, -13>>, <<15, 12>>,
      <<16, -12>>, <<16, 11>>, <<18, -9>>, <<18, -7>>, <<18, 6>>, <<18, 8>>, <<19, -6>>, <<19, -4>>,
      <<19, -2>>, <<19, 1>>, <<19, 3>>, <<19, 5>> }

Full20By72Special ==
    { << <<-20, -20, -20, 0>>, <<0, 1, 0, 33>> >>,
      << <<-18, -17, -18, 0>>, <<-11, -10, -10, 17>> >>,
      << <<-18, -17, -18, 0>>, <<10, 11, 10, 65>> >>,
      << <<-11, -10, -10, 129>>, <<-18, -17, -18, 0>> >>,
      << <<-10, -9, -10, 33>>, <<17, 18, 17, 0>> >>,
      << <<-1, 0, 0, 65>>, <<-20, -20, -20, 0>> >>,
      << <<0, 1, 0, 17>>, <<20, 20, 20, 0>> >>,
      << <<9, 10, 10, 129>>, <<-18, -17, -18, 0>> >>,
      << <<10, 11, 10, 17>>, <<17, 18, 17, 0>> >>,
      << <<17, 18, 17, 0>>, <<-10, -9, -10, 65>> >>,
      << <<17, 18, 17, 0>>, <<9, 10, 10, 17>> >>,
      << <<20, 20, 20, 0>>, <<-1, 0, 0, 65>> >>,
      << <<20, 20, 20, 0>>, <<0, 0, 0, 0>> >> }

ArcTL10By15Generic ==
    { <<-10, 1>>, <<-10, 2>>, <<-10, 3>>, <<-10, 4>>, <<-9, 5>>, <<-8, 6>>, <<-7, 7>>, <<-6, 8>>,
      <<-5, 9>>, <<-4, 9>>, <<-3, 9>>, <<-2, 9>> }

ArcTL10By15Special ==
    { << <<-10, -10, -10, 0>>, <<0, 1, 0, 17>> >>,
      << <<-9, -8, -9, 0>>, <<5, 6, 5, 33>> >>,
      << <<-5, -4, -5, 17>>, <<8, 9, 8, 0>> >>,
      << <<0, 1, 0, 9>>, <<10, 10, 10, 0>> >> }

ArcTR10By15Generic ==
    { <<1, 9>>, <<2, 9>>, <<3, 9>>, <<4, 9>>, <<5, 8>>, <<6, 7>>, <<7, 6>>, <<8, 5>>,
      <<9, 1>>, <<9, 2>>, <<9, 3>>, <<9, 4>> }

ArcTR10By15Special ==
    { << <<0, 1, 0, 33>>, <<10, 10, 10, 0>> >>,
      << <<5, 6, 5, 9>>, <<8, 9, 8, 0>> >>,
      << <<8, 9, 8, 0>>, <<4, 5, 5, 9>> >>,
      << <<10, 10, 10, 0>>, <<0, 0, 0, 0>> >> }

ArcBR10By15Generic ==
    { <<1, -10>>, <<2, -10>>, <<3, -10>>, <<4, -10>>, <<5, -9>>, <<6, -8>>, <<7, -7>>, <<8, -6>>,
      <<9, -5>>, <<9, -4>>, <<9, -3>>, <<9, -2>> }

ArcBR10By15Special ==
    { << <<0, 1, 0, 9>>, <<-10, -10, -10, 0>> >>,
      << <<4, 5, 5, 9>>, <<-9, -8, -9, 0>> >>,
      << <<8, 9, 8, 0>>, <<-5, -5, -5, 0>> >>,
      << <<10, 10, 10, 0>>, <<-1, 0, 0, 33>> >> }

ArcBL10By15Generic ==
    { <<-10, -5>>, <<-10, -4>>, <<-10, -3>>, <<-10, -2>>, <<-9, -6>>, <<-8, -7>>, <<-7, -8>>, <<-6, -9>>,
      <<-5, -10>>, <<-4, -10>>, <<-3, -10>>, <<-2, -10>> }

ArcBL10By15Special ==
    { << <<-10, -10, -10, 0>>, <<0, 1, 0, 17>> >>,
      << <<-9, -8, -9, 0>>, <<-5, -4, -5, 33>> >>,
      << <<-6, -5, -5, 65>>, <<-9, -8, -9, 0>> >>,
      << <<-1, 0, 0, 33>>, <<-10, -10, -10, 0>> >> }

(***************************************************************************)
(* The entries sampled by get_circle_points(_, radius, number_points,      *)
(* start_angle, end_angle).  Angles are given in quarter turns: 1 is       *)
(* pi / 2, 4 is 2 * pi.                                                    *)
(***************************************************************************)
Widen(generic) ==
    { << <<g[1], g[1] + 1, g[1], 0>>, <<g[2], g[2] + 1, g[2], 0>> >> : g \in generic }

Full20 == Widen(Full20Generic) \cup Full20Special
ArcTL10 == Widen(ArcTL10Generic) \cup ArcTL10Special
ArcTR10 == Widen(ArcTR10Generic) \cup ArcTR10Special
ArcBR10 == Widen(ArcBR10Generic) \cup ArcBR10Special
ArcBL10 == Widen(ArcBL10Generic) \cup ArcBL10Special
Full20By72 == Widen(Full20By72Generic) \cup Full20By72Special
ArcTL10By15 == Widen(ArcTL10By15Generic) \cup ArcTL10By15Special
ArcTR10By15 == Widen(ArcTR10By15Generic) \cup ArcTR10By15Special
ArcBR10By15 == Widen(ArcBR10By15Generic) \cup ArcBR10By15Special
ArcBL10By15 == Widen(ArcBL10By15Generic) \cup ArcBL10By15Special

circle_samples(radius, number_points, start_angle, end_angle) ==
    CASE radius = 20 /\ number_points = 360 /\ start_angle = 0 /\ end_angle = 4 -> Full20
      [] radius = 10 /\ number_points = 90 /\ start_angle = 1 /\ end_angle = 2 -> ArcTL10
      [] radius = 10 /\ number_points = 90 /\ start_angle = 0 /\ end_angle = 1 -> ArcTR10
      [] radius = 10 /\ number_points = 90 /\ start_angle = -1 /\ end_angle = 0 -> ArcBR10
      [] radius = 10 /\ number_points = 90 /\ start_angle = 2 /\ end_angle = 3 -> ArcBL10
      [] radius = 20 /\ number_points = 72 /\ start_angle = 0 /\ end_angle = 4 -> Full20By72
      [] radius = 10 /\ number_points = 15 /\ start_angle = 1 /\ end_angle = 2 -> ArcTL10By15
      [] radius = 10 /\ number_points = 15 /\ start_angle = 0 /\ end_angle = 1 -> ArcTR10By15
      [] radius = 10 /\ number_points = 15 /\ start_angle = -1 /\ end_angle = 0 -> ArcBR10By15
      [] radius = 10 /\ number_points = 15 /\ start_angle = 2 /\ end_angle = 3 -> ArcBL10By15

(***************************************************************************)
(* int(c + f) for the integer c and the double f described by entry e:     *)
(* the sum is the integer c + n when the addition rounds to it, and is     *)
(* truncated towards zero otherwise.                                       *)
(***************************************************************************)
int_of_sum(c, e) ==
    IF e[4] > 0 /\ Abs(c + e[3]) >= e[4] THEN c + e[3]
    ELSE IF c + e[1] < 0 THEN c + e[2]
    ELSE c + e[1]

get_circle_points(center, radius, number_points, start_angle, end_angle) ==
    { << int_of_sum(center[1], s[1]), int_of_sum(center[2], s[2]) >> :
        s \in circle_samples(radius, number_points, start_angle, end_angle) }

(***************************************************************************)
(* The four regions of a rounded rectangle, indexed 0..3 as the list the   *)
(* source returns: right edge, left edge, top region, bottom region.       *)
(***************************************************************************)
get_rounded_rectangle_points(center, width, height, radius, num_arc_points) ==
    LET r == Min(radius, Min(width \div 2, height \div 2))
        left == center[1] - width \div 2
        right == center[1] + width \div 2
        top == center[2] - height \div 2
        bottom == center[2] + height \div 2
        top_left == <<left + r, top + r>>
        top_right == <<right - r, top + r>>
        bottom_right == <<right - r, bottom - r>>
        bottom_left == <<left + r, bottom - r>>
        arc_tl == get_circle_points(top_left, r, num_arc_points, 1, 2)
        arc_tr == get_circle_points(top_right, r, num_arc_points, 0, 1)
        arc_br == get_circle_points(bottom_right, r, num_arc_points, -1, 0)
        arc_bl == get_circle_points(bottom_left, r, num_arc_points, 2, 3)
        top_edge == { <<x, top>> : x \in (left + r)..(right - r) }
        right_edge == { <<right, y>> : y \in (top + r)..(bottom - r) }
        bottom_edge == { <<x, bottom>> : x \in (left + r)..(right - r) }
        left_edge == { <<left, y>> : y \in (top + r)..(bottom - r) }
        bottom_set == arc_br \cup bottom_edge \cup arc_bl
        top_set == arc_tl \cup top_edge \cup arc_tr
    IN  [i \in 0..3 |-> CASE i = 0 -> right_edge
                          [] i = 1 -> left_edge
                          [] i = 2 -> top_set
                          [] i = 3 -> bottom_set]

isdisjoint(a, b) == a \cap b = {}


(***************************************************************************)
(* Engine.  An engine state is a record of the fields that the methods     *)
(* assign: ball_position, current_ball_direction, ball_move_pixels,        *)
(* paddles, cpus, scores and rally_counter; paddles, cpus, scores and      *)
(* rally_counter are indexed by the player.  A method that draws from      *)
(* random takes the drawn values as arguments.                             *)
(***************************************************************************)
Engine(width, height) ==
    [ ball_move_pixels |-> <<10, 5>>,
      current_ball_direction |-> <<0, 0>>,
      ball_position |-> <<0, 0>>,
      paddles |-> [player \in 0..1 |-> <<0, 0>>],
      cpus |-> [player \in 0..1 |-> FALSE],
      scores |-> [player \in 0..1 |-> 0],
      rally_counter |-> [player \in 0..1 |-> 0] ]

(* reset that leaves the rally counters as they are. *)
reset_keeping_rally(e, direction) ==
    [e EXCEPT !.current_ball_direction = direction,
              !.ball_position = <<board_width \div 2, board_height \div 2>>]

(* reset that also puts the paddles back to the middle, as a new game does. *)
reset_with_paddles(e, direction) ==
    [e EXCEPT !.current_ball_direction = direction,
              !.rally_counter = [player \in 0..1 |-> 0],
              !.ball_position = <<board_width \div 2, board_height \div 2>>,
              !.paddles = [player \in 0..1 |-> <<e.paddles[player][1], board_height \div 2>>]]

(* reset that also puts the speed back to the default of the constructor.  *)
reset_default_speed(e, direction) ==
    [e EXCEPT !.current_ball_direction = direction,
              !.rally_counter = [player \in 0..1 |-> 0],
              !.ball_position = <<board_width \div 2, board_height \div 2>>,
              !.ball_move_pixels = Engine(board_width, board_height).ball_move_pixels]

reset(e, direction) ==
    [e EXCEPT !.current_ball_direction = direction,
              !.rally_counter = [player \in 0..1 |-> 0],
              !.ball_position = <<board_width \div 2, board_height \div 2>>]

(* initialise that leaves the scores as they are. *)
initialise_keeping_scores(e, direction) ==
    [e EXCEPT !.current_ball_direction = direction,
              !.rally_counter = [player \in 0..1 |-> 0],
              !.ball_position = <<board_width \div 2, board_height \div 2>>,
              !.paddles = [player \in 0..1 |->
                  IF player = 0
                  THEN <<0 + PADDLE_WIDTH \div 2, board_height \div 2>>
                  ELSE <<board_width - PADDLE_WIDTH \div 2, board_height \div 2>>]]

initialise(e, direction) ==
    LET initial_paddle_y == board_height \div 2
    IN  reset([e EXCEPT !.scores = [player \in 0..1 |-> 0],
                        !.paddles = [player \in 0..1 |->
                            IF player = 0
                            THEN <<0 + PADDLE_WIDTH \div 2, initial_paddle_y>>
                            ELSE <<board_width - PADDLE_WIDTH \div 2, initial_paddle_y>>]],
              direction)

(* check_wall_collision that leaves out the wall at y = 0. *)
check_wall_collision_one_wall(new_y, offset) ==
    LET top == new_y + offset
    IN  top > board_height

check_wall_collision(new_y, offset) ==
    LET top == new_y + offset
        bottom == new_y - offset
    IN  top > board_height \/ bottom < 0

check_ball_collision(e, player, new_y, offset) ==
    LET ball_x == e.ball_position[1]
        paddle == e.paddles[player]
    IN  IF PADDLE_WIDTH * 2 < ball_x /\ ball_x < board_width - PADDLE_WIDTH * 2
        THEN FALSE
        ELSE \E ball_perimeter \in {get_circle_points(e.ball_position, BALL_RADIUS, 360, 0, 4)},
                paddle_perimeter \in
                    {get_rounded_rectangle_points(<<paddle[1], new_y>>,
                                                  PADDLE_WIDTH, offset, 10, 90)} :
                IF ~isdisjoint(paddle_perimeter[2], ball_perimeter) THEN TRUE
                ELSE IF ~isdisjoint(paddle_perimeter[3], ball_perimeter) THEN TRUE
                ELSE FALSE

(* move_paddle whose upper limit is one pixel too high. *)
move_paddle_y_high(e, player, direction, pixels) ==
    LET candidate == e.paddles[player][2] + pixels * direction
        new_y == IF direction > 0
                 THEN Min(candidate, board_height - paddle_sizes[player] \div 2 - 1)
                 ELSE Max(candidate, paddle_sizes[player] \div 2)
    IN  IF \/ check_wall_collision(new_y, paddle_sizes[player] \div 2)
           \/ check_ball_collision(e, player, new_y, paddle_sizes[player])
        THEN e.paddles[player][2]
        ELSE new_y

(* move_paddle that moves a rejected paddle half of the way. *)
move_paddle_y_half(e, player, direction, pixels) ==
    LET candidate == e.paddles[player][2] + pixels * direction
        new_y == IF direction > 0
                 THEN Min(candidate, board_height - paddle_sizes[player] \div 2 - 1)
                 ELSE Max(candidate, paddle_sizes[player] \div 2 + 1)
    IN  IF \/ check_wall_collision(new_y, paddle_sizes[player] \div 2)
           \/ check_ball_collision(e, player, new_y, paddle_sizes[player])
        THEN (e.paddles[player][2] + new_y) \div 2
        ELSE new_y

(***************************************************************************)
(* The y that move_paddle stores for the player: the clamped candidate, or *)
(* the current y when the candidate is rejected.                           *)
(***************************************************************************)
move_paddle_y(e, player, direction, pixels) ==
    LET candidate == e.paddles[player][2] + pixels * direction
        new_y == IF direction > 0
                 THEN Min(candidate, board_height - paddle_sizes[player] \div 2 - 1)
                 ELSE Max(candidate, paddle_sizes[player] \div 2 + 1)
    IN  IF \/ check_wall_collision(new_y, paddle_sizes[player] \div 2)
           \/ check_ball_collision(e, player, new_y, paddle_sizes[player])
        THEN e.paddles[player][2]
        ELSE new_y

move_paddle(e, player, direction, pixels) ==
    [e EXCEPT !.paddles[player] =
        <<e.paddles[player][1], move_paddle_y(e, player, direction, pixels)>>]

(***************************************************************************)
(* The tentative ball position: one step from the current position.        *)
(***************************************************************************)
new_ball(e) ==
    << e.ball_position[1] + e.current_ball_direction[1] * e.ball_move_pixels[1],
       e.ball_position[2] + e.current_ball_direction[2] * e.ball_move_pixels[2] >>

(* check_paddle_collision that tests the right edge for either player. *)
paddle_branch_right_edge(ball_perimeter, paddle, player) ==
    The({ IF ~isdisjoint(ball_perimeter, paddle_perimeter[0]) THEN "side"
          ELSE IF ~isdisjoint(ball_perimeter, paddle_perimeter[2]) THEN "top"
          ELSE IF ~isdisjoint(ball_perimeter, paddle_perimeter[3]) THEN "bottom"
          ELSE "none" :
          paddle_perimeter \in
              {get_rounded_rectangle_points(paddle, PADDLE_WIDTH, paddle_sizes[player], 10, 90)} })

(* check_paddle_collision that tests the outer edge of the paddle. *)
paddle_branch_outer_edge(ball_perimeter, paddle, player) ==
    The({ IF ~isdisjoint(ball_perimeter, paddle_perimeter[1 - player]) THEN "side"
          ELSE IF ~isdisjoint(ball_perimeter, paddle_perimeter[2]) THEN "top"
          ELSE IF ~isdisjoint(ball_perimeter, paddle_perimeter[3]) THEN "bottom"
          ELSE "none" :
          paddle_perimeter \in
              {get_rounded_rectangle_points(paddle, PADDLE_WIDTH, paddle_sizes[player], 10, 90)} })

(***************************************************************************)
(* The branch of check_paddle_collision that the paddle of the player      *)
(* takes against the ball perimeter: "side", "top", "bottom" or "none".    *)
(***************************************************************************)
paddle_branch(ball_perimeter, paddle, player) ==
    The({ IF ~isdisjoint(ball_perimeter, paddle_perimeter[player]) THEN "side"
          ELSE IF ~isdisjoint(ball_perimeter, paddle_perimeter[2]) THEN "top"
          ELSE IF ~isdisjoint(ball_perimeter, paddle_perimeter[3]) THEN "bottom"
          ELSE "none" :
          paddle_perimeter \in
              {get_rounded_rectangle_points(paddle, PADDLE_WIDTH, paddle_sizes[player], 10, 90)} })

(***************************************************************************)
(* The first branch taken in the loop of check_paddle_collision, with its  *)
(* player; NoHit, of branch "none", when the method returns False.         *)
(***************************************************************************)
NoHit == [branch |-> "none", player |-> 0]

later_paddle(ball_perimeter, e) ==
    The({ IF second # "none" THEN [branch |-> second, player |-> 1] ELSE NoHit :
          second \in {paddle_branch(ball_perimeter, e.paddles[1], 1)} })

(* The loop of check_paddle_collision alone, without the test of the band  *)
(* that comes before it.                                                   *)
paddle_collision_unculled(e) ==
    The(UNION { { IF first # "none" THEN [branch |-> first, player |-> 0]
                  ELSE later_paddle(ball_perimeter, e) :
                  first \in {paddle_branch(ball_perimeter, e.paddles[0], 0)} } :
                ball_perimeter \in
                    {get_circle_points(new_ball(e), BALL_RADIUS, 360, 0, 4)} })

(* check_paddle_collision that skips the loop from one paddle width on.    *)
paddle_collision_wide_band(e) ==
    LET new_ball_x == new_ball(e)[1]
    IN  IF PADDLE_WIDTH < new_ball_x /\ new_ball_x < board_width - PADDLE_WIDTH
        THEN NoHit
        ELSE paddle_collision_unculled(e)

paddle_collision(e) ==
    LET new_ball_x == new_ball(e)[1]
    IN  IF PADDLE_WIDTH * 2 < new_ball_x /\ new_ball_x < board_width - PADDLE_WIDTH * 2
        THEN NoHit
        ELSE The(UNION { { IF first # "none" THEN [branch |-> first, player |-> 0]
                           ELSE later_paddle(ball_perimeter, e) :
                           first \in {paddle_branch(ball_perimeter, e.paddles[0], 0)} } :
                         ball_perimeter \in
                             {get_circle_points(new_ball(e), BALL_RADIUS, 360, 0, 4)} })

(* The regions of the paddles in the order in which check_paddle_collision *)
(* examines them, and those that the perimeter of the ball at its          *)
(* tentative position meets, by their places in that order.                *)
examined == << <<0, "side">>, <<0, "top">>, <<0, "bottom">>,
               <<1, "side">>, <<1, "top">>, <<1, "bottom">> >>

region(e, player, name) ==
    get_rounded_rectangle_points(e.paddles[player], PADDLE_WIDTH, paddle_sizes[player], 10, 90)
        [CASE name = "side" -> player [] name = "top" -> 2 [] name = "bottom" -> 3]

regions_met(e) ==
    UNION { { k \in DOMAIN examined :
                ~isdisjoint(ball_perimeter, region(e, examined[k][1], examined[k][2])) } :
            ball_perimeter \in {get_circle_points(new_ball(e), BALL_RADIUS, 360, 0, 4)} }

(* check_paddle_collision that goes on after a match and applies the       *)
(* bounce of every region met.                                             *)
check_paddle_collision_every_match(e, hit, random_y, random_amount) ==
    LET current_x == e.current_ball_direction[1]
        new_ball_x == new_ball(e)[1]
    IN  IF PADDLE_WIDTH * 2 < new_ball_x /\ new_ball_x < board_width - PADDLE_WIDTH * 2
        THEN [returns |-> FALSE, engine |-> e]
        ELSE The({ [ returns |-> met # {},
                     engine |->
                         IF met = {} THEN e
                         ELSE [e EXCEPT
                                 !.current_ball_direction =
                                     The({ << -current_x,
                                              CASE final[2] = "side" -> random_y
                                                [] final[2] = "top" -> -1
                                                [] final[2] = "bottom" -> 1 >> :
                                           final \in {examined[CHOOSE k \in met :
                                                          \A other \in met : k >= other]} }),
                                 !.ball_move_pixels = random_amount,
                                 !.rally_counter =
                                     [player \in 0..1 |->
                                         e.rally_counter[player]
                                             + Cardinality({k \in met :
                                                               examined[k][1] = player})]] ] :
                   met \in {regions_met(e)} })

(* check_paddle_collision that sends the ball down from a top and up from  *)
(* a bottom.                                                               *)
check_paddle_collision_swapped(e, hit, random_y, random_amount) ==
    LET current_x == e.current_ball_direction[1]
    IN  [ returns |-> hit.branch # "none",
          engine |->
              IF hit.branch = "none" THEN e
              ELSE [e EXCEPT !.current_ball_direction =
                                 << -current_x,
                                    CASE hit.branch = "side" -> random_y
                                      [] hit.branch = "top" -> 1
                                      [] hit.branch = "bottom" -> -1 >>,
                             !.ball_move_pixels = random_amount,
                             !.rally_counter[hit.player] = @ + 1] ]

(* check_paddle_collision whose side bounce stores the two components of   *)
(* the new direction the wrong way round.                                  *)
check_paddle_collision_transposed(e, hit, random_y, random_amount) ==
    LET current_x == e.current_ball_direction[1]
    IN  [ returns |-> hit.branch # "none",
          engine |->
              IF hit.branch = "none" THEN e
              ELSE [e EXCEPT !.current_ball_direction =
                                 CASE hit.branch = "side" -> <<random_y, -current_x>>
                                   [] hit.branch = "top" -> <<-current_x, -1>>
                                   [] hit.branch = "bottom" -> <<-current_x, 1>>,
                             !.ball_move_pixels = random_amount,
                             !.rally_counter[hit.player] = @ + 1] ]

(***************************************************************************)
(* check_paddle_collision: what the call returns, and the engine it        *)
(* leaves.  hit is paddle_collision(e), the outcome of the test of the     *)
(* band and of the loop over the paddles, which a caller works out once    *)
(* for all the values that random.choice may return.                       *)
(***************************************************************************)
check_paddle_collision(e, hit, random_y, random_amount) ==
    LET current_x == e.current_ball_direction[1]
    IN  [ returns |-> hit.branch # "none",
          engine |->
              IF hit.branch = "none" THEN e
              ELSE [e EXCEPT !.current_ball_direction =
                                 << -current_x,
                                    CASE hit.branch = "side" -> random_y
                                      [] hit.branch = "top" -> -1
                                      [] hit.branch = "bottom" -> 1 >>,
                             !.ball_move_pixels = random_amount,
                             !.rally_counter[hit.player] = @ + 1] ]

(* move_ball that moves the ball in free flight along x only. *)
move_ball_along_x(e, hit, random_y, random_amount) ==
    LET current_x_dir == e.current_ball_direction[1]
        current_y_dir == e.current_ball_direction[2]
        new_x == new_ball(e)[1]
        new_y == new_ball(e)[2]
    IN  The({ IF call.returns
              THEN call.engine
              ELSE IF check_wall_collision(new_y, BALL_RADIUS)
              THEN [e EXCEPT !.current_ball_direction = <<current_x_dir, -current_y_dir>>,
                             !.ball_position =
                                 << new_x,
                                    e.ball_position[2]
                                        + (-current_y_dir) * e.ball_move_pixels[2] >>]
              ELSE [e EXCEPT !.ball_position = <<new_x, e.ball_position[2]>>] :
              call \in {check_paddle_collision(e, hit, random_y, random_amount)} })

(* move_ball that turns the ball at a wall and still commits the tentative *)
(* y.                                                                      *)
move_ball_through_wall(e, hit, random_y, random_amount) ==
    LET current_x_dir == e.current_ball_direction[1]
        current_y_dir == e.current_ball_direction[2]
        new_x == new_ball(e)[1]
        new_y == new_ball(e)[2]
    IN  The({ IF call.returns
              THEN call.engine
              ELSE IF check_wall_collision(new_y, BALL_RADIUS)
              THEN [e EXCEPT !.current_ball_direction = <<current_x_dir, -current_y_dir>>,
                             !.ball_position = <<new_x, new_y>>]
              ELSE [e EXCEPT !.ball_position = <<new_x, new_y>>] :
              call \in {check_paddle_collision(e, hit, random_y, random_amount)} })

move_ball(e, hit, random_y, random_amount) ==
    LET current_x_dir == e.current_ball_direction[1]
        current_y_dir == e.current_ball_direction[2]
        new_x == new_ball(e)[1]
        new_y == new_ball(e)[2]
    IN  The({ IF call.returns
              THEN call.engine
              ELSE IF check_wall_collision(new_y, BALL_RADIUS)
              THEN [e EXCEPT !.current_ball_direction = <<current_x_dir, -current_y_dir>>,
                             !.ball_position =
                                 << new_x,
                                    e.ball_position[2]
                                        + (-current_y_dir) * e.ball_move_pixels[2] >>]
              ELSE [e EXCEPT !.ball_position = <<new_x, new_y>>] :
              call \in {check_paddle_collision(e, hit, random_y, random_amount)} })

(* cpu_move_paddles that asks for the full step whatever the gap. *)
cpu_move_paddle_full_step(e, player, ball_y) ==
    LET paddle_y == e.paddles[player][2]
        pixels == PADDLE_MOVE_PIXELS
    IN  IF ~e.cpus[player] THEN e
        ELSE IF paddle_y > ball_y THEN move_paddle(e, player, -1, pixels)
        ELSE IF paddle_y < ball_y THEN move_paddle(e, player, 1, pixels)
        ELSE e

cpu_move_paddle(e, player, ball_y) ==
    LET paddle_y == e.paddles[player][2]
        gap == Abs(paddle_y - ball_y)
        pixels == Min(gap, PADDLE_MOVE_PIXELS)
    IN  IF ~e.cpus[player] THEN e
        ELSE IF paddle_y > ball_y THEN move_paddle(e, player, -1, pixels)
        ELSE IF paddle_y < ball_y THEN move_paddle(e, player, 1, pixels)
        ELSE e

cpu_move_paddles(e) ==
    LET ball_y == e.ball_position[2]
    IN  The({ cpu_move_paddle(moved, 1, ball_y) : moved \in {cpu_move_paddle(e, 0, ball_y)} })

(* check_goal that misses a ball that is exactly on a goal line. *)
check_goal_result_strict(e) ==
    LET new_x == new_ball(e)[1]
    IN  IF new_x < BALL_RADIUS THEN "two"
        ELSE IF new_x > board_width - BALL_RADIUS THEN "one"
        ELSE "None"

check_goal_result(e) ==
    LET new_x == new_ball(e)[1]
    IN  IF new_x <= BALL_RADIUS THEN "two"
        ELSE IF new_x >= board_width - BALL_RADIUS THEN "one"
        ELSE "None"

check_goal(e) ==
    CASE check_goal_result(e) = "two" -> [e EXCEPT !.scores[1] = @ + 1]
      [] check_goal_result(e) = "one" -> [e EXCEPT !.scores[0] = @ + 1]
      [] OTHER -> e

(* check_game_over with the threshold one too high. *)
check_game_over_late(e) ==
    IF e.scores[0] = 11 THEN "Player One won!"
    ELSE IF e.scores[1] = 11 THEN "Player Two won!"
    ELSE "None"

(* check_game_over that takes any score from the threshold up. *)
check_game_over_from(e) ==
    IF e.scores[0] >= 10 THEN "Player One won!"
    ELSE IF e.scores[1] >= 10 THEN "Player Two won!"
    ELSE "None"

check_game_over(e) ==
    IF e.scores[0] = 10 THEN "Player One won!"
    ELSE IF e.scores[1] = 10 THEN "Player Two won!"
    ELSE "None"

(***************************************************************************)
(* Controller.  A controller state is a record of the fields that the      *)
(* handlers assign: engine, paused, playing, keys_held, and timer, which   *)
(* is view_timer.isActive().  Keys are named by their letter.              *)
(***************************************************************************)
Keys == { "W", "S", "O", "K", "D", "J", "Space" }

init_game(c, direction) ==
    [c EXCEPT !.engine = initialise(c.engine, direction),
              !.playing = TRUE,
              !.timer = TRUE]

Controller(direction) ==
    init_game([ engine |-> Engine(WIDTH, HEIGHT),
                timer |-> FALSE,
                paused |-> FALSE,
                playing |-> TRUE,
                keys_held |-> {} ],
              direction)

(* game_over that starts the engine afresh. *)
game_over_initialise(c, direction) ==
    [c EXCEPT !.timer = FALSE,
              !.playing = FALSE,
              !.engine = initialise(c.engine, direction)]

game_over(c, direction) ==
    [c EXCEPT !.timer = FALSE,
              !.playing = FALSE,
              !.engine = reset(c.engine, direction)]

(* The key blocks of update_game without the test of the CPU flag. *)
key_move_with_cpu(c, e, player, up, down) ==
    IF up \in c.keys_held THEN move_paddle(e, player, -1, PADDLE_MOVE_PIXELS)
    ELSE IF down \in c.keys_held THEN move_paddle(e, player, 1, PADDLE_MOVE_PIXELS)
    ELSE e

(***************************************************************************)
(* The two blocks of update_game that apply the keys held by a player.     *)
(***************************************************************************)
key_move(c, e, player, up, down) ==
    IF e.cpus[player] THEN e
    ELSE IF up \in c.keys_held THEN move_paddle(e, player, -1, PADDLE_MOVE_PIXELS)
    ELSE IF down \in c.keys_held THEN move_paddle(e, player, 1, PADDLE_MOVE_PIXELS)
    ELSE e

(* update_game that checks the goal before the game over. *)
before_move_ball_goal_first(c, over_direction, goal_direction) ==
    LET e1 == IF check_goal_result(c.engine) # "None"
              THEN reset(check_goal(c.engine), goal_direction)
              ELSE c.engine
        c2 == IF check_game_over(e1) # "None"
              THEN game_over([c EXCEPT !.engine = e1], goal_direction)
              ELSE [c EXCEPT !.engine = e1]
    IN  The({ [c2 EXCEPT !.engine = key_move(c2, e3, 1, "O", "K")] :
              e3 \in {key_move(c2, c2.engine, 0, "W", "S")} })

(***************************************************************************)
(* update_game up to the call of move_ball: the game-over check, the goal  *)
(* check and the key moves.  over_direction and goal_direction are the     *)
(* directions drawn by the reset of game_over and by the reset that        *)
(* follows a goal.                                                         *)
(***************************************************************************)
before_move_ball(c, over_direction, goal_direction) ==
    LET message == check_game_over(c.engine)
        c1 == IF message # "None" THEN game_over(c, over_direction) ELSE c
        e2 == IF check_goal_result(c1.engine) # "None"
              THEN reset(check_goal(c1.engine), goal_direction)
              ELSE c1.engine
    IN  The({ [c1 EXCEPT !.engine = key_move(c1, e3, 1, "O", "K")] :
              e3 \in {key_move(c1, e2, 0, "W", "S")} })

(* update_game that lets the autopilot move the paddles before the ball    *)
(* moves.                                                                  *)
from_move_ball_autopilot_first(c, hit, random_y, random_amount) ==
    The({ [c EXCEPT !.engine = move_ball(moved, paddle_collision(moved), random_y,
                                         random_amount)] :
          moved \in {cpu_move_paddles(c.engine)} })

(***************************************************************************)
(* update_game from the call of move_ball on, where hit is                 *)
(* paddle_collision(c.engine).                                             *)
(***************************************************************************)
from_move_ball(c, hit, random_y, random_amount) ==
    The({ [c EXCEPT !.engine = cpu_move_paddles(moved)] :
          moved \in {move_ball(c.engine, hit, random_y, random_amount)} })

update_game(c, over_direction, goal_direction, random_y, random_amount) ==
    The({ from_move_ball(c4, paddle_collision(c4.engine), random_y, random_amount) :
          c4 \in {before_move_ball(c, over_direction, goal_direction)} })

pause_game(c) ==
    IF ~c.playing THEN c
    ELSE IF ~c.paused THEN [c EXCEPT !.timer = FALSE, !.paused = TRUE]
    ELSE c

un_pause_game(c) ==
    IF ~c.playing THEN c
    ELSE [c EXCEPT !.paused = FALSE, !.timer = TRUE]

toggle_pause_game(c) ==
    IF ~c.playing THEN c
    ELSE IF c.timer THEN pause_game(c)
    ELSE un_pause_game(c)

keyPressEvent(c, key) ==
    LET held == [c EXCEPT !.keys_held = @ \cup {key}]
    IN  CASE key = "Space" -> toggle_pause_game(held)
          [] key = "D" -> [held EXCEPT !.engine.cpus[0] = ~@]
          [] key = "J" -> [held EXCEPT !.engine.cpus[1] = ~@]
          [] OTHER -> held

keyReleaseEvent(c, key) == [c EXCEPT !.keys_held = @ \ {key}]

(***************************************************************************)
(* State.  controller is the Controller with its Engine; last describes    *)
(* the call or event that produced the state, with the engine before a     *)
(* call of one of its methods; count holds the numbers of calls, events,   *)
(* ticks and ticks with a paddle bounce so far, which the bounds cap.      *)
(***************************************************************************)
VARIABLES controller, last, count

vars == <<controller, last, count>>

engine == controller.engine

MaxCalls == 2
MaxEvents == 1
MaxTicks == 10
MaxBounces == 1

NoCall ==
    [ op |-> "construct", player |-> -1, direction |-> 0, pixels |-> 0,
      over |-> "None", goal |-> "None", bounce |-> "none", bouncer |-> -1,
      before |-> Engine(WIDTH, HEIGHT) ]

NoCount == [ calls |-> 0, events |-> 0, ticks |-> 0, bounces |-> 0 ]

(***************************************************************************)
(* What move_ball does to the ball in engine state e, where hit is         *)
(* paddle_collision(e): the branch of the paddle collision, else "wall"    *)
(* for a wall bounce, else "none"; and what random.choice may return in    *)
(* that call.                                                              *)
(***************************************************************************)
bounce_of(e, hit) ==
    IF hit.branch # "none" THEN hit.branch
    ELSE IF check_wall_collision(new_ball(e)[2], BALL_RADIUS) THEN "wall"
    ELSE "none"

random_y_choices(hit) == IF hit.branch = "side" THEN -1..1 ELSE {0}

(* random.choice over amounts whose speed along x is half the lowest one. *)
random_amount_choices_slow(e, hit) ==
    IF hit.branch # "none" THEN { <<5, 5>>, <<5, 15>> } ELSE {e.ball_move_pixels}

random_amount_choices(e, hit) ==
    IF hit.branch # "none" THEN ball_move_amounts ELSE {e.ball_move_pixels}

(***************************************************************************)
(* Controller events.  A run has ticks up to its first tick with a paddle  *)
(* bounce, which draws one of the 198 or 66 outcomes of random.choice, and *)
(* events after it.                                                        *)
(***************************************************************************)
over_choices(c) ==
    IF check_game_over(c.engine) # "None" THEN ball_directions ELSE {<<0, 0>>}

goal_choices(c, over_direction) ==
    LET c1 == IF check_game_over(c.engine) # "None" THEN game_over(c, over_direction) ELSE c
    IN  IF check_goal_result(c1.engine) # "None" THEN ball_directions ELSE {<<0, 0>>}

goal_of(c, over_direction) ==
    LET c1 == IF check_game_over(c.engine) # "None" THEN game_over(c, over_direction) ELSE c
    IN  check_goal_result(c1.engine)

UpdateGame ==
    /\ controller.timer
    /\ count.ticks < MaxTicks
    /\ count.bounces < MaxBounces
    /\ \E over_direction \in over_choices(controller) :
       \E goal_direction \in goal_choices(controller, over_direction) :
       \E c4 \in {before_move_ball(controller, over_direction, goal_direction)} :
       \E hit \in {paddle_collision(c4.engine)} :
          /\ \E random_y \in random_y_choices(hit) :
             \E random_amount \in random_amount_choices(c4.engine, hit) :
                controller' = from_move_ball(c4, hit, random_y, random_amount)
          /\ last' = [NoCall EXCEPT !.op = "update_game",
                                    !.over = check_game_over(controller.engine),
                                    !.goal = goal_of(controller, over_direction),
                                    !.bounce = bounce_of(c4.engine, hit),
                                    !.bouncer = IF hit.branch # "none" THEN hit.player ELSE -1]
          /\ count' = [count EXCEPT !.ticks = @ + 1,
                                    !.bounces = IF hit.branch # "none" THEN @ + 1 ELSE @]

KeyPress ==
    /\ count.events < MaxEvents
    /\ \E key \in Keys :
          /\ controller' = keyPressEvent(controller, key)
          /\ last' = [NoCall EXCEPT !.op = "keyPressEvent"]
    /\ count' = [count EXCEPT !.events = @ + 1]

KeyRelease ==
    /\ count.events < MaxEvents
    /\ \E key \in controller.keys_held :
          /\ controller' = keyReleaseEvent(controller, key)
          /\ last' = [NoCall EXCEPT !.op = "keyReleaseEvent"]
    /\ count' = [count EXCEPT !.events = @ + 1]

MenuShow ==
    /\ count.events < MaxEvents
    /\ controller' = pause_game(controller)
    /\ last' = [NoCall EXCEPT !.op = "pause_game"]
    /\ count' = [count EXCEPT !.events = @ + 1]

MenuHide ==
    /\ count.events < MaxEvents
    /\ controller' = un_pause_game(controller)
    /\ last' = [NoCall EXCEPT !.op = "un_pause_game"]
    /\ count' = [count EXCEPT !.events = @ + 1]

Restart ==
    /\ count.events < MaxEvents
    /\ \E direction \in ball_directions :
          controller' = init_game(controller, direction)
    /\ last' = [NoCall EXCEPT !.op = "init_game"]
    /\ count' = [count EXCEPT !.events = @ + 1]

(***************************************************************************)
(* Calls of the Engine's methods, one action each, for the statements      *)
(* about single calls.  The engine is the one the controller holds; the    *)
(* rest of the controller stays as it is.                                  *)
(***************************************************************************)
pixel_choices == {7, PADDLE_MOVE_PIXELS}

CallInitialise ==
    /\ count.calls < MaxCalls
    /\ \E direction \in ball_directions :
          controller' = [controller EXCEPT !.engine = initialise(engine, direction)]
    /\ last' = [NoCall EXCEPT !.op = "initialise", !.before = engine]
    /\ count' = [count EXCEPT !.calls = @ + 1]

CallReset ==
    /\ count.calls < MaxCalls
    /\ \E direction \in ball_directions :
          controller' = [controller EXCEPT !.engine = reset(engine, direction)]
    /\ last' = [NoCall EXCEPT !.op = "reset", !.before = engine]
    /\ count' = [count EXCEPT !.calls = @ + 1]

CallMovePaddle ==
    /\ count.calls < MaxCalls
    /\ \E player \in 0..1, direction \in {-1, 1}, pixels \in pixel_choices :
          /\ controller' = [controller EXCEPT
                                !.engine = move_paddle(engine, player, direction, pixels)]
          /\ last' = [NoCall EXCEPT !.op = "move_paddle", !.player = player,
                                    !.direction = direction, !.pixels = pixels,
                                    !.before = engine]
    /\ count' = [count EXCEPT !.calls = @ + 1]

CallMoveBall ==
    /\ count.calls < MaxCalls
    /\ \E hit \in {paddle_collision(engine)} :
          /\ \E random_y \in random_y_choices(hit) :
             \E random_amount \in random_amount_choices(engine, hit) :
                controller' = [controller EXCEPT
                                  !.engine = move_ball(engine, hit, random_y, random_amount)]
          /\ last' = [NoCall EXCEPT !.op = "move_ball",
                                    !.bounce = bounce_of(engine, hit),
                                    !.bouncer = IF hit.branch # "none" THEN hit.player ELSE -1,
                                    !.before = engine]
    /\ count' = [count EXCEPT !.calls = @ + 1]

CallCheckPaddleCollision ==
    /\ count.calls < MaxCalls
    /\ \E hit \in {paddle_collision(engine)} :
          /\ \E random_y \in random_y_choices(hit) :
             \E random_amount \in random_amount_choices(engine, hit) :
                controller' = [controller EXCEPT
                                  !.engine = check_paddle_collision(engine, hit, random_y,
                                                                    random_amount).engine]
          /\ last' = [NoCall EXCEPT !.op = "check_paddle_collision",
                                    !.bounce = hit.branch,
                                    !.bouncer = IF hit.branch # "none" THEN hit.player ELSE -1,
                                    !.before = engine]
    /\ count' = [count EXCEPT !.calls = @ + 1]

CallCpuMovePaddles ==
    /\ count.calls < MaxCalls
    /\ controller' = [controller EXCEPT !.engine = cpu_move_paddles(engine)]
    /\ last' = [NoCall EXCEPT !.op = "cpu_move_paddles", !.before = engine]
    /\ count' = [count EXCEPT !.calls = @ + 1]

CallCheckGoal ==
    /\ count.calls < MaxCalls
    /\ controller' = [controller EXCEPT !.engine = check_goal(engine)]
    /\ last' = [NoCall EXCEPT !.op = "check_goal", !.goal = check_goal_result(engine),
                              !.before = engine]
    /\ count' = [count EXCEPT !.calls = @ + 1]

CallCheckGameOver ==
    /\ count.calls < MaxCalls
    /\ controller' = controller
    /\ last' = [NoCall EXCEPT !.op = "check_game_over", !.over = check_game_over(engine),
                              !.before = engine]
    /\ count' = [count EXCEPT !.calls = @ + 1]

(***************************************************************************)
(* Starting states.  Each is computed from the controller as constructed   *)
(* by handlers of the controller itself, so it is a state the program      *)
(* reaches.  A script is a sequence of steps: a key press, a key release,  *)
(* or n periods of the timer, in whose ticks a reset draws direction, a    *)
(* side bounce draws 0 and a bounce draws the current amount, or one       *)
(* period in whose tick a side bounce draws random_y and a bounce draws    *)
(* random_amount.  A timer that is not active does not tick.               *)
(***************************************************************************)
Press(key) == [op |-> "press", key |-> key, n |-> 0, direction |-> <<0, 0>>]
Release(key) == [op |-> "release", key |-> key, n |-> 0, direction |-> <<0, 0>>]
Ticks(n, direction) ==
    [op |-> "ticks", key |-> "", n |-> n, direction |-> direction,
     random_y |-> 0, random_amount |-> <<0, 0>>]
TickDrawing(random_y, random_amount) ==
    [op |-> "ticks", key |-> "", n |-> 1, direction |-> <<0, 0>>,
     random_y |-> random_y, random_amount |-> random_amount]

RECURSIVE play(_, _)
play(c, script) ==
    IF Len(script) = 0 THEN c
    ELSE IF Len(script) > 1
    THEN The({ play(half, SubSeq(script, Len(script) \div 2 + 1, Len(script))) :
               half \in {play(c, SubSeq(script, 1, Len(script) \div 2))} })
    ELSE The({ CASE step.op = "press" -> keyPressEvent(c, step.key)
                 [] step.op = "release" -> keyReleaseEvent(c, step.key)
                 [] step.op = "ticks" /\ (step.n = 0 \/ ~c.timer) -> c
                 [] step.op = "ticks" /\ step.n = 1 /\ c.timer ->
                        update_game(c, step.direction, step.direction, step.random_y,
                                    IF step.random_amount = <<0, 0>>
                                    THEN c.engine.ball_move_pixels
                                    ELSE step.random_amount)
                 [] OTHER ->
                        play(c, << Ticks(step.n \div 2, step.direction),
                                   Ticks(step.n - step.n \div 2, step.direction) >>) :
               step \in {script[1]} })

(***************************************************************************)
(* The script of n points, each a serve that leaves the board past a       *)
(* paddle, to player one and player two in turn, with last_direction drawn *)
(* by the reset of the last goal.  From the construction, with a serve of  *)
(* direction <<1, 1>>, the first goal comes with tick 73, and each later   *)
(* one 72 ticks after the one before.                                      *)
(***************************************************************************)
points(n, last_direction) ==
    [k \in 1..n |-> Ticks(IF k = 1 THEN 73 ELSE 72,
                          IF k = n THEN last_direction
                          ELSE IF k % 2 = 0 THEN <<1, 1>> ELSE <<-1, 1>>)]

(* The controller after 17 points and after 18 points of that script, from *)
(* a first serve of direction <<1, 1>>, right after the tick of the goal:  *)
(* after 18 points the score is 9-9.                                       *)
Scored17 == play(Controller(<<1, 1>>), points(17, <<-1, 1>>))

Scored18 == play(Scored17, << Ticks(72, <<1, 1>>) >>)

(***************************************************************************)
(* The scripts of the starting states, each with the controller it is      *)
(* played from: the construction alone; the ball on its way to a paddle or *)
(* a goal, 64 ticks after the serve, at 0-0 and at 9-9; the game at 9-9    *)
(* one tick before the last goal, and at 10-9 right after its tick; the    *)
(* game over at 10-9, which no further period of the timer changes; the    *)
(* approach with a CPU switched on, and with a key held.                   *)
(***************************************************************************)
Constructed == { << Controller(direction), << >> >> : direction \in ball_directions }

Approach ==
    { << Controller(direction), << Ticks(64, direction) >> >> :
        direction \in ball_directions }
    \cup
    { << Scored17, << Ticks(72, direction), Ticks(64, direction) >> >> :
        direction \in ball_directions }

Over ==
    { << Scored18, << Ticks(72, direction), Ticks(70, direction) >> >> :
        direction \in ball_directions }

MatchPoint ==
    { << Scored17, << Ticks(72, direction), Ticks(71, direction) >> >> :
        direction \in {<<1, 1>>, <<-1, -1>>} }

Won ==
    { << Scored18, << Ticks(72, direction) >> >> :
        direction \in {<<1, 0>>, <<-1, 1>>} }

CpuApproach ==
    { << Controller(direction), << Press(key), Release(key), Ticks(64, direction) >> >> :
        key \in {"D", "J"}, direction \in ball_directions }

HeldApproach ==
    { << Controller(direction), << Press(key), Ticks(64, direction) >> >> :
        key \in {"W", "K"}, direction \in {<<-1, -1>>, <<1, 1>>} }

(* A CPU switched on when the ball is 50 pixels away from the paddle.      *)
CpuBehind ==
    { << Controller(<<-1, -1>>), << Ticks(10, <<-1, -1>>), Press("D"), Release("D"),
                        Ticks(1, <<-1, -1>>) >> >>,
      << Controller(<<1, 1>>), << Ticks(10, <<1, 1>>), Press("J"), Release("J"),
                      Ticks(1, <<1, 1>>) >> >> }

(* The left paddle moved down to its border and then up to y = 99, with    *)
(* key W still held, while the ball comes down from the wall at y = 0: the *)
(* ball at (70, 30) after the tick in which its perimeter meets the right  *)
(* edge of the paddle, a side bounce that draws the y direction 1 and the  *)
(* speed (10, 15).                                                         *)
Chased ==
    { << Controller(<<-1, -1>>),
         << Ticks(13, <<-1, -1>>), Press("S"), Ticks(20, <<-1, -1>>), Release("S"),
            Press("W"), Ticks(35, <<-1, -1>>), TickDrawing(1, <<10, 15>>) >> >> }

Starts ==
    { play(start[1], start[2]) :
        start \in Constructed \cup Approach \cup MatchPoint \cup Won \cup Over
                     \cup CpuApproach
                     \cup HeldApproach \cup CpuBehind \cup Chased }

Init ==
    /\ controller \in Starts
    /\ last = NoCall
    /\ count = NoCount

Next ==
    \/ UpdateGame
    \/ KeyPress
    \/ KeyRelease
    \/ MenuShow
    \/ MenuHide
    \/ Restart

Spec == Init /\ [][Next]_vars

(***************************************************************************)
(* Starting states of the engine for the calls: the engine as constructed  *)
(* and not yet initialised, and engines of controllers in play: with the   *)
(* ball about to reach a paddle that was moved, with a paddle next to its  *)
(* border, with a CPU tracking the ball, and at 0-0 and at 9-9 with the    *)
(* ball next to a goal, with a CPU switched on when the ball is 50 pixels  *)
(* away, with the ball two steps from the end of the band in which         *)
(* check_paddle_collision skips its loop, and with the ball next to the    *)
(* top or the bottom wall.                                                 *)
(***************************************************************************)
Uninitialised ==
    [Controller(<<1, 0>>) EXCEPT !.engine = Engine(board_width, board_height)]

NearPaddle ==
    { << Controller(direction),
         << Press(key), Ticks(5, direction), Release(key), Ticks(63, direction) >> >> :
        key \in {"W", "S", "O", "K"}, direction \in {<<1, 0>>, <<-1, 0>>} }
    \cup
    { << Controller(direction),
         << Press(key), Ticks(5, direction), Release(key), Ticks(63, direction) >> >> :
        key \in {"W", "K"}, direction \in {<<1, -1>>, <<1, 1>>, <<-1, -1>>, <<-1, 1>>} }

NearBorder ==
    { << Controller(<<1, 0>>), << Press(key), Ticks(19, <<1, 0>>), Release(key) >> >> :
        key \in {"W", "S", "O", "K"} }

NearGoal ==
    { << Controller(direction), << Ticks(72, direction) >> >> :
        direction \in {<<1, -1>>, <<1, 1>>, <<-1, -1>>, <<-1, 1>>} }
    \cup
    { << Scored17, << Ticks(72, direction), Ticks(71, direction) >> >> :
        direction \in {<<1, -1>>, <<1, 1>>, <<-1, -1>>, <<-1, 1>>} }

CpuNearPaddle ==
    { << Controller(direction), << Press("D"), Release("D"), Ticks(66, direction) >> >> :
        direction \in {<<-1, 0>>, <<-1, -1>>, <<-1, 1>>} }
    \cup
    { << Controller(direction), << Press("J"), Release("J"), Ticks(66, direction) >> >> :
        direction \in {<<1, 0>>, <<1, -1>>, <<1, 1>>} }

BandEdge ==
    { << Controller(direction), << Ticks(61, direction) >> >> :
        direction \in {<<1, 0>>, <<-1, 1>>} }

NearWall ==
    { << Controller(direction), << Ticks(66, direction) >> >> :
        direction \in {<<1, -1>>, <<-1, 1>>} }

EngineStarts ==
    {Uninitialised} \cup
    { play(start[1], start[2]) :
        start \in NearPaddle \cup NearBorder \cup NearGoal \cup CpuNearPaddle
                     \cup CpuBehind \cup BandEdge \cup NearWall }

InitEngine ==
    /\ controller \in EngineStarts
    /\ last = NoCall
    /\ count = NoCount

NextEngine ==
    \/ CallInitialise
    \/ CallReset
    \/ CallMovePaddle
    \/ CallMoveBall
    \/ CallCheckPaddleCollision
    \/ CallCpuMovePaddles
    \/ CallCheckGoal
    \/ CallCheckGameOver

SpecEngine == InitEngine /\ [][NextEngine]_vars

(***************************************************************************)
(* The statements.  Those about one call of a method of the engine are     *)
(* checked under SpecEngine, in the state after the call: last.op is the   *)
(* method called, last.before the engine it was called on and engine the   *)
(* engine after it.  Before the first call last.op is "construct".  The    *)
(* statements about the ticks and events of a game are checked under Spec. *)
(***************************************************************************)
(* initialise has been called on e: only initialise assigns the x of a     *)
(* paddle, which the constructor leaves 0.                                 *)
initialised(e) == e.paddles[0][1] # Engine(board_width, board_height).paddles[0][1]

paddle_in_range(e, player) ==
    /\ paddle_sizes[player] \div 2 + 1 <= e.paddles[player][2]
    /\ e.paddles[player][2] <= board_height - paddle_sizes[player] \div 2 - 1

(* C1: in every engine state reached after initialise(), before and after  *)
(* every call, the centre y of each paddle is at least                     *)
(* paddle_sizes[p] // 2 + 1 and at most                                    *)
(* board_height - paddle_sizes[p] // 2 - 1; and move_paddle leaves where   *)
(* it is a paddle at the least y asked to move up, and a paddle at the     *)
(* greatest y asked to move down.                                          *)
C1_PaddleRange ==
    /\ initialised(last.before)
          => \A player \in 0..1 : paddle_in_range(last.before, player)
    /\ initialised(engine) => \A player \in 0..1 : paddle_in_range(engine, player)
    /\ \A player \in 0..1 :
          /\ initialised(last.before)
          /\ last.op = "move_paddle"
          /\ last.player = player
          /\ \/ /\ last.direction = -1
                /\ last.before.paddles[player][2] = paddle_sizes[player] \div 2 + 1
             \/ /\ last.direction = 1
                /\ last.before.paddles[player][2]
                      = board_height - paddle_sizes[player] \div 2 - 1
          => engine.paddles[player] = last.before.paddles[player]

C1_Witness ==
    /\ last.op = "move_paddle"
    /\ last.direction = -1
    /\ last.pixels = PADDLE_MOVE_PIXELS
    /\ initialised(last.before)
    /\ last.before.paddles[last.player][2] = paddle_sizes[last.player] \div 2 + 1
    /\ engine.paddles[last.player][2] = paddle_sizes[last.player] \div 2 + 1

(* C2: a call of check_goal with tentative x = ball x + direction x *      *)
(* speed x adds exactly 1 to scores[1] and leaves scores[0] when           *)
(* tentative x <= BALL_RADIUS, adds exactly 1 to scores[0] and leaves      *)
(* scores[1] when tentative x >= board_width - BALL_RADIUS, and leaves     *)
(* both scores otherwise.                                                  *)
C2_Scoring ==
    last.op = "check_goal" =>
      IF new_ball(last.before)[1] <= BALL_RADIUS
      THEN /\ engine.scores[1] = last.before.scores[1] + 1
           /\ engine.scores[0] = last.before.scores[0]
      ELSE IF new_ball(last.before)[1] >= board_width - BALL_RADIUS
      THEN /\ engine.scores[0] = last.before.scores[0] + 1
           /\ engine.scores[1] = last.before.scores[1]
      ELSE engine.scores = last.before.scores

C2_Witness ==
    /\ last.op = "check_goal"
    /\ new_ball(last.before)[1] = BALL_RADIUS
    /\ engine.scores[1] = last.before.scores[1] + 1

(* C3: in every state of a game, reached by ticks, key events, pauses and  *)
(* restarts, both scores are at least 0 and at most 10.                    *)
C3_ScoreBound == \A player \in 0..1 : engine.scores[player] \in 0..10

C3_Witness ==
    /\ last.op = "update_game"
    /\ last.goal # "None"
    /\ \E player \in 0..1 : engine.scores[player] = 10

(* C4: check_game_over reports a winner if and only if a score equals 10,  *)
(* player one when scores[0] equals 10 and player two when only scores[1]  *)
(* does.                                                                   *)
C4_GameOverDetection ==
    /\ check_game_over(engine) # "None" <=> \E player \in 0..1 : engine.scores[player] = 10
    /\ engine.scores[0] = 10 => check_game_over(engine) = "Player One won!"
    /\ engine.scores[0] # 10 /\ engine.scores[1] = 10
          => check_game_over(engine) = "Player Two won!"

C4_Witness ==
    /\ last.op = "check_game_over"
    /\ last.over = "Player Two won!"
    /\ engine.scores[0] # 10
    /\ engine.scores[1] = 10

(* C5: after a call of reset the ball is at (board_width // 2,             *)
(* board_height // 2), both rally counters are 0 and the direction is one  *)
(* of the six of ball_directions.                                          *)
C5_ResetPost ==
    last.op = "reset" =>
      /\ engine.ball_position = <<board_width \div 2, board_height \div 2>>
      /\ \A player \in 0..1 : engine.rally_counter[player] = 0
      /\ engine.current_ball_direction
            \in { <<1, 0>>, <<1, -1>>, <<1, 1>>, <<-1, 0>>, <<-1, -1>>, <<-1, 1>> }

C5_Witness ==
    /\ last.op = "reset"
    /\ \E player \in 0..1 : last.before.rally_counter[player] > 0
    /\ last.before.ball_position # <<board_width \div 2, board_height \div 2>>
    /\ engine.ball_position = <<board_width \div 2, board_height \div 2>>

(* C6: a call of reset leaves the positions of both paddles, both scores   *)
(* and both CPU flags as they were.                                        *)
C6_ResetFrame ==
    last.op = "reset" =>
      /\ engine.paddles = last.before.paddles
      /\ engine.scores = last.before.scores
      /\ engine.cpus = last.before.cpus

C6_Witness ==
    /\ last.op = "reset"
    /\ engine.paddles[0][2] # board_height \div 2
    /\ engine.scores[0] > 0
    /\ engine.ball_position # last.before.ball_position

(* C7: after a call of initialise, from any engine state, both scores and  *)
(* both rally counters are 0, the paddles are at (PADDLE_WIDTH // 2,       *)
(* board_height // 2) and (board_width - PADDLE_WIDTH // 2,                *)
(* board_height // 2), which are (30, 350) and (1470, 350), the ball is at *)
(* (board_width // 2, board_height // 2), which is (750, 350), and the     *)
(* direction is one of the six of ball_directions.                         *)
C7_InitialisePost ==
    last.op = "initialise" =>
      /\ \A player \in 0..1 : engine.scores[player] = 0
      /\ \A player \in 0..1 : engine.rally_counter[player] = 0
      /\ engine.paddles[0] = <<PADDLE_WIDTH \div 2, board_height \div 2>>
      /\ engine.paddles[1] = <<board_width - PADDLE_WIDTH \div 2, board_height \div 2>>
      /\ engine.paddles[0] = <<30, 350>>
      /\ engine.paddles[1] = <<1470, 350>>
      /\ engine.ball_position = <<board_width \div 2, board_height \div 2>>
      /\ engine.ball_position = <<750, 350>>
      /\ engine.current_ball_direction
            \in { <<1, 0>>, <<1, -1>>, <<1, 1>>, <<-1, 0>>, <<-1, -1>>, <<-1, 1>> }

C7_Witness ==
    /\ last.op = "initialise"
    /\ last.before.scores[1] = 10
    /\ last.before.ball_position # <<board_width \div 2, board_height \div 2>>
    /\ engine.scores[1] = 0

(* C8: a call of move_ball whose tentative position hits neither a paddle  *)
(* nor the top or bottom wall moves the ball by exactly (direction x *     *)
(* speed x, direction y * speed y) and leaves direction, speed, rally      *)
(* counters, scores and paddles as they were.                              *)
C8_FreeFlight ==
    /\ last.op = "move_ball"
    /\ paddle_collision(last.before).branch = "none"
    /\ ~check_wall_collision(new_ball(last.before)[2], BALL_RADIUS)
    => /\ engine.ball_position[1] = last.before.ball_position[1]
            + last.before.current_ball_direction[1] * last.before.ball_move_pixels[1]
       /\ engine.ball_position[2] = last.before.ball_position[2]
            + last.before.current_ball_direction[2] * last.before.ball_move_pixels[2]
       /\ engine.current_ball_direction = last.before.current_ball_direction
       /\ engine.ball_move_pixels = last.before.ball_move_pixels
       /\ engine.rally_counter = last.before.rally_counter
       /\ engine.scores = last.before.scores
       /\ engine.paddles = last.before.paddles

C8_Witness ==
    /\ last.op = "move_ball"
    /\ last.bounce = "none"
    /\ last.before.current_ball_direction[2] # 0
    /\ engine.ball_position[1] <= PADDLE_WIDTH * 2
    /\ engine.ball_position # last.before.ball_position

side_region(e, player) ==
    get_rounded_rectangle_points(e.paddles[player], PADDLE_WIDTH,
                                 paddle_sizes[player], 10, 90)[player]

(* C9: a call of move_ball in which the perimeter of the ball at its       *)
(* tentative position meets the side region of the paddle of player p      *)
(* negates the horizontal direction, leaves a vertical direction in        *)
(* {-1, 0, 1}, adds exactly 1 to rally_counter[p], leaves the other rally  *)
(* counter and leaves the ball where it was.                               *)
C9_SideBounce ==
    \A player \in 0..1 :
      /\ last.op = "move_ball"
      /\ ~isdisjoint(get_circle_points(new_ball(last.before), BALL_RADIUS, 360, 0, 4),
                     side_region(last.before, player))
      => /\ engine.current_ball_direction[1] = -last.before.current_ball_direction[1]
         /\ engine.current_ball_direction[2] \in {-1, 0, 1}
         /\ engine.rally_counter[player] = last.before.rally_counter[player] + 1
         /\ engine.rally_counter[1 - player] = last.before.rally_counter[1 - player]
         /\ engine.ball_position = last.before.ball_position

C9_Witness ==
    /\ last.op = "move_ball"
    /\ last.bounce = "side"
    /\ last.bouncer = 1
    /\ engine.current_ball_direction = <<-1, -1>>
    /\ engine.rally_counter[1] = last.before.rally_counter[1] + 1

(* C10: a call of move_ball whose bounce is a hit of the top region of a   *)
(* paddle makes the vertical direction -1, and one whose bounce is a hit   *)
(* of the bottom region makes it 1; either negates the horizontal          *)
(* direction, adds exactly 1 to the rally counter of the owner of the      *)
(* paddle, draws the speed from ball_move_amounts and leaves the ball      *)
(* where it was.                                                           *)
C10_TopBottomBounce ==
    /\ last.op = "move_ball"
    /\ paddle_collision(last.before).branch \in {"top", "bottom"}
    => /\ paddle_collision(last.before).branch = "top"
            => engine.current_ball_direction[2] = -1
       /\ paddle_collision(last.before).branch = "bottom"
            => engine.current_ball_direction[2] = 1
       /\ engine.current_ball_direction[1] = -last.before.current_ball_direction[1]
       /\ engine.rally_counter[paddle_collision(last.before).player]
            = last.before.rally_counter[paddle_collision(last.before).player] + 1
       /\ engine.ball_move_pixels \in ball_move_amounts
       /\ engine.ball_position = last.before.ball_position

C10_Witness ==
    /\ last.op = "move_ball"
    /\ last.bounce = "top"
    /\ last.before.current_ball_direction[2] = 0
    /\ engine.current_ball_direction[2] = -1
    /\ engine.ball_position = last.before.ball_position

(* C11: a call of move_ball with no paddle collision whose tentative y has *)
(* tentative y + BALL_RADIUS > board_height or tentative y - BALL_RADIUS   *)
(* < 0 negates the vertical direction, leaves the horizontal direction and *)
(* the speed, and commits x = old x + direction x * speed x and y = old y  *)
(* - old direction y * speed y; a call with a paddle collision at such a   *)
(* tentative y applies the paddle rule alone: the ball stays where it was  *)
(* and the horizontal direction is negated.                                *)
C11_WallBounce ==
    /\ last.op = "move_ball"
    /\ \/ new_ball(last.before)[2] + BALL_RADIUS > board_height
       \/ new_ball(last.before)[2] - BALL_RADIUS < 0
    => IF paddle_collision(last.before).branch = "none"
       THEN /\ engine.current_ball_direction[2] = -last.before.current_ball_direction[2]
            /\ engine.current_ball_direction[1] = last.before.current_ball_direction[1]
            /\ engine.ball_move_pixels = last.before.ball_move_pixels
            /\ engine.ball_position[1] = last.before.ball_position[1]
                 + last.before.current_ball_direction[1] * last.before.ball_move_pixels[1]
            /\ engine.ball_position[2] = last.before.ball_position[2]
                 - last.before.current_ball_direction[2] * last.before.ball_move_pixels[2]
       ELSE /\ engine.ball_position = last.before.ball_position
            /\ engine.current_ball_direction[1] = -last.before.current_ball_direction[1]

C11_Witness ==
    /\ last.op = "move_ball"
    /\ last.bounce = "wall"
    /\ new_ball(last.before)[2] + BALL_RADIUS > board_height
    /\ engine.current_ball_direction[2] = -1
    /\ engine.ball_position[2] = last.before.ball_position[2] - last.before.ball_move_pixels[2]

(* C12: a call of move_paddle for player p returns and changes at most the *)
(* y of the paddle of p: the other paddle, the x of both paddles, the      *)
(* position, direction and speed of the ball, the scores, the rally        *)
(* counters and the CPU flags stay as they were; and the y after the call  *)
(* is the y before it or the candidate, y + pixels * direction cut to at   *)
(* most board_height - paddle_sizes[p] // 2 - 1 on the way down and to at  *)
(* least paddle_sizes[p] // 2 + 1 on the way up, and no other value.       *)
C12_SilentRejection ==
    last.op = "move_paddle" =>
      /\ engine.paddles[1 - last.player] = last.before.paddles[1 - last.player]
      /\ engine.paddles[last.player][1] = last.before.paddles[last.player][1]
      /\ engine.ball_position = last.before.ball_position
      /\ engine.current_ball_direction = last.before.current_ball_direction
      /\ engine.ball_move_pixels = last.before.ball_move_pixels
      /\ engine.scores = last.before.scores
      /\ engine.rally_counter = last.before.rally_counter
      /\ engine.cpus = last.before.cpus
      /\ engine.paddles[last.player][2] \in
            { last.before.paddles[last.player][2],
              IF last.direction > 0
              THEN Min(last.before.paddles[last.player][2] + last.pixels * last.direction,
                       board_height - paddle_sizes[last.player] \div 2 - 1)
              ELSE Max(last.before.paddles[last.player][2] + last.pixels * last.direction,
                       paddle_sizes[last.player] \div 2 + 1) }

(* A paddle away from its limits that stays where it is because the        *)
(* candidate overlaps the ball.                                            *)
C12_Witness ==
    /\ last.op = "move_paddle"
    /\ initialised(last.before)
    /\ last.before.paddles[last.player][2] \in
           paddle_sizes[last.player] \div 2 + 1 + PADDLE_MOVE_PIXELS
           .. board_height - paddle_sizes[last.player] \div 2 - 1 - PADDLE_MOVE_PIXELS
    /\ check_ball_collision(last.before, last.player,
                            last.before.paddles[last.player][2]
                                + last.pixels * last.direction,
                            paddle_sizes[last.player])
    /\ engine.paddles = last.before.paddles

(* The vertical gap between the paddle of the player and the ball, and the *)
(* candidate of the autopilot: the step of min(gap, PADDLE_MOVE_PIXELS)    *)
(* from the paddle toward the ball.                                        *)
gap_of(e, player) == Abs(e.paddles[player][2] - e.ball_position[2])

cpu_candidate(e, player) ==
    IF e.paddles[player][2] > e.ball_position[2]
    THEN e.paddles[player][2] - Min(gap_of(e, player), PADDLE_MOVE_PIXELS)
    ELSE e.paddles[player][2] + Min(gap_of(e, player), PADDLE_MOVE_PIXELS)

(* C13, as claimed: a call of cpu_move_paddles moves the paddle of every   *)
(* CPU-enabled player at gap g > 0 from the y of the ball by exactly       *)
(* min(g, PADDLE_MOVE_PIXELS) pixels toward the ball.                      *)
C13_AutopilotExactStep ==
    last.op = "cpu_move_paddles" =>
      \A player \in 0..1 :
          last.before.cpus[player] /\ initialised(last.before) /\ gap_of(last.before, player) > 0
          => engine.paddles[player][2] = cpu_candidate(last.before, player)

(* C13, amended: a call of cpu_move_paddles asks move_paddle, for every    *)
(* CPU-enabled player at gap g > 0 from the y of the ball, for exactly     *)
(* min(g, PADDLE_MOVE_PIXELS) pixels toward the ball: the paddle moves by  *)
(* exactly that many pixels when the candidate is within the range of the  *)
(* paddle and does not overlap the ball, and otherwise it ends at the      *)
(* candidate cut to the range or stays where it was.                       *)
C13_AutopilotStep ==
    last.op = "cpu_move_paddles" =>
      \A player \in 0..1 :
          last.before.cpus[player] /\ initialised(last.before) /\ gap_of(last.before, player) > 0
          => /\ engine.paddles[player][2] \in
                   { last.before.paddles[player][2],
                     Max(paddle_sizes[player] \div 2 + 1,
                         Min(board_height - paddle_sizes[player] \div 2 - 1,
                             cpu_candidate(last.before, player))) }
             /\ /\ cpu_candidate(last.before, player)
                      \in paddle_sizes[player] \div 2 + 1
                            .. board_height - paddle_sizes[player] \div 2 - 1
                 /\ ~check_ball_collision(last.before, player, cpu_candidate(last.before, player),
                                          paddle_sizes[player])
                 => engine.paddles[player][2] = cpu_candidate(last.before, player)

(* A gap of 7 pixels that the autopilot closes with a step of 7.           *)
C13_Witness ==
    /\ last.op = "cpu_move_paddles"
    /\ \E player \in 0..1 :
          /\ last.before.cpus[player]
          /\ gap_of(last.before, player) = 7
          /\ gap_of(engine, player) = 0

(* C14: in every state of a game, which the constructor has initialised,   *)
(* reached by ticks with their goals, resets and bounces, and by key and   *)
(* menu events, the centre of the ball is within [0, board_width] x        *)
(* [0, board_height].                                                      *)
C14_BallInside ==
    /\ engine.ball_position[1] \in 0..board_width
    /\ engine.ball_position[2] \in 0..board_height

(* The ball one step from the wall at y = 0 after it bounced off it.       *)
C14_Witness ==
    /\ last.op = "update_game"
    /\ last.bounce = "wall"
    /\ engine.current_ball_direction[2] = 1
    /\ engine.ball_position[2] = BALL_RADIUS + engine.ball_move_pixels[2]

(* C15: in every state of a game, which the constructor has initialised,   *)
(* reached by ticks with their goals, resets, paddle bounces and wall      *)
(* bounces, the horizontal component of the direction of the ball is -1 or *)
(* 1 and the vertical one is -1, 0 or 1; the direction is never (0, 0).    *)
C15_BallDirection ==
    /\ engine.current_ball_direction[1] \in {-1, 1}
    /\ engine.current_ball_direction[2] \in {-1, 0, 1}
    /\ engine.current_ball_direction # Engine(board_width, board_height).current_ball_direction

(* A side bounce that turns a horizontal flight to the right into a flight *)
(* to the left and down.                                                   *)
C15_Witness ==
    /\ last.op = "update_game"
    /\ last.bounce = "side"
    /\ engine.ball_position[2] = board_height \div 2
    /\ engine.current_ball_direction = <<-1, 1>>

(* C16: from a state in which check_game_over reports a winner, the tick   *)
(* that detects the game over and every later tick or event other than     *)
(* init_game, which calls initialise, leave both scores as they were, the  *)
(* score of the winner at 10.                                              *)
C16_GameOverKeepsScores ==
    [][ check_game_over(engine) # "None" /\ last'.op # "init_game"
        => /\ engine'.scores = engine.scores
           /\ \E player \in 0..1 : engine'.scores[player] = 10 ]_vars

(* The tick that detected the game over at 10-9 or 9-10.                   *)
C16_Witness ==
    /\ last.op = "update_game"
    /\ last.over # "None"
    /\ ~controller.playing
    /\ \E player \in 0..1 : engine.scores[player] = 10 /\ engine.scores[1 - player] = 9

(* What the autopilot does to the paddle of a CPU-enabled player, from the *)
(* engine e that it sees to the engine after: the paddle ends where it was *)
(* or at the candidate cut to its range, and at the candidate when that is *)
(* within the range and does not overlap the ball.                         *)
autopilot_step(e, after, player) ==
    /\ after.paddles[player][2] \in
          { e.paddles[player][2],
            Max(paddle_sizes[player] \div 2 + 1,
                Min(board_height - paddle_sizes[player] \div 2 - 1,
                    cpu_candidate(e, player))) }
    /\ /\ cpu_candidate(e, player)
             \in paddle_sizes[player] \div 2 + 1
                   .. board_height - paddle_sizes[player] \div 2 - 1
        /\ ~check_ball_collision(e, player, cpu_candidate(e, player), paddle_sizes[player])
        => after.paddles[player][2] = cpu_candidate(e, player)

(* The paddle of a player whose CPU is off after the keys held moved it,   *)
(* from the engine e that move_paddle sees to the engine after.            *)
manual_step(e, after, player, up, down) ==
    after.paddles[player][2] =
        IF up \in controller.keys_held
        THEN move_paddle_y(e, player, -1, PADDLE_MOVE_PIXELS)
        ELSE IF down \in controller.keys_held
        THEN move_paddle_y(e, player, 1, PADDLE_MOVE_PIXELS)
        ELSE e.paddles[player][2]

(* The ball that the moves of a tick meet before the ball moves: the ball  *)
(* before the tick, put back to the middle when the tick begins with a     *)
(* game over or a goal.                                                    *)
before_ball_moves(e) ==
    IF \/ \E player \in 0..1 : e.scores[player] = 10
       \/ new_ball(e)[1] <= BALL_RADIUS
       \/ new_ball(e)[1] >= board_width - BALL_RADIUS
    THEN [e EXCEPT !.ball_position = <<board_width \div 2, board_height \div 2>>]
    ELSE e

(* C17, as claimed: in a tick the manual and the autopilot paddle moves    *)
(* are applied before the ball moves, so the autopilot follows the ball of *)
(* before the tick, and the goal and game-over checks are made after the   *)
(* ball has moved, so a tick leaves no goal to be scored and no game at 10 *)
(* still playing.                                                          *)
C17_TickOrderAsClaimed ==
    [][ last'.op = "update_game" =>
          /\ \A player \in 0..1 :
                engine.cpus[player] => autopilot_step(engine, engine', player)
          /\ ~engine.cpus[0] => manual_step(engine, engine', 0, "W", "S")
          /\ ~engine.cpus[1] => manual_step(engine, engine', 1, "O", "K")
          /\ new_ball(engine')[1] > BALL_RADIUS
          /\ new_ball(engine')[1] < board_width - BALL_RADIUS
          /\ (\E player \in 0..1 : engine'.scores[player] = 10) => ~controller'.playing ]_vars

(* C17, amended: in a tick the game-over check and the goal check are made *)
(* first, on the state that the tick before left: the game stops playing   *)
(* exactly when a score was 10 before the tick, and else a player scores   *)
(* exactly when the tentative x of the ball of before the tick is at or    *)
(* past a goal line; then the manual paddle moves are applied, before the  *)
(* ball moves; and the autopilot paddle moves are applied last, after the  *)
(* ball has moved, toward the y the ball has after the tick.               *)
C17_TickOrder ==
    [][ last'.op = "update_game" =>
          /\ controller'.playing <=> \A player \in 0..1 : engine.scores[player] # 10
          /\ engine'.scores =
                IF \E player \in 0..1 : engine.scores[player] = 10 THEN engine.scores
                ELSE IF new_ball(engine)[1] <= BALL_RADIUS
                THEN [engine.scores EXCEPT ![1] = @ + 1]
                ELSE IF new_ball(engine)[1] >= board_width - BALL_RADIUS
                THEN [engine.scores EXCEPT ![0] = @ + 1]
                ELSE engine.scores
          /\ ~engine.cpus[0]
                => manual_step(before_ball_moves(engine), engine', 0, "W", "S")
          /\ ~engine.cpus[1]
                => manual_step(before_ball_moves(engine), engine', 1, "O", "K")
          /\ \A player \in 0..1 :
                engine.cpus[player]
                => autopilot_step([engine' EXCEPT !.paddles = engine.paddles],
                                  engine', player) ]_vars

(* After a tick in which the ball flew on up or down, the paddle of a CPU  *)
(* away from its limits is level with the ball.                            *)
C17_Witness ==
    /\ last.op = "update_game"
    /\ last.bounce = "none"
    /\ engine.current_ball_direction[2] # 0
    /\ \E player \in 0..1 :
          /\ engine.cpus[player]
          /\ engine.paddles[player][2] = engine.ball_position[2]
          /\ engine.paddles[player][2] # board_height \div 2

(* C18, as claimed: the tick in which a goal raises a score to 10 is the   *)
(* tick in which the game over is detected and signalled: no tick ends     *)
(* with a score of 10 and the game still playing.                          *)
C18_GameOverSameTick ==
    [][ last'.op = "update_game" /\ (\E player \in 0..1 : engine'.scores[player] = 10)
        => ~controller'.playing /\ ~controller'.timer ]_vars

(* C18, amended: the tick in which a goal raises a score from 9 to 10 ends *)
(* with the game still playing and its timer running, and reports no game  *)
(* over; the game over is detected and signalled by the next tick, the one *)
(* that begins with a score of 10, which stops the timer and the play.     *)
C18_GameOverNextTick ==
    [][ last'.op = "update_game" =>
          /\ (\E player \in 0..1 : engine.scores[player] = 9 /\ engine'.scores[player] = 10)
                => /\ controller'.playing
                   /\ controller'.timer
                   /\ last'.over = "None"
          /\ (\E player \in 0..1 : engine.scores[player] = 10)
                => /\ ~controller'.playing
                   /\ ~controller'.timer
                   /\ last'.over # "None" ]_vars

(* The end of the tick of the winning goal: 10 points and the game still   *)
(* playing.                                                                *)
C18_Witness ==
    /\ last.op = "update_game"
    /\ last.goal # "None"
    /\ last.over = "None"
    /\ \E player \in 0..1 : engine.scores[player] = 10
    /\ controller.playing
    /\ controller.timer

(* C19: once check_game_over has reported a winner, the tick that detects  *)
(* it moves no paddle and does not move the ball, which game_over put back *)
(* to the middle, and scores no goal; and until init_game no event, pause, *)
(* un-pause and menu events included, starts the timer again or changes    *)
(* the paddles, the ball or the scores.                                    *)
C19_GameOverTerminal ==
    [][ /\ /\ last'.op = "update_game"
            /\ check_game_over(engine) # "None"
            => /\ engine'.paddles = engine.paddles
               /\ engine'.ball_position = <<board_width \div 2, board_height \div 2>>
               /\ engine'.scores = engine.scores
               /\ ~controller'.timer
        /\ ~controller.playing /\ last'.op # "init_game"
            => /\ ~controller'.timer
               /\ engine'.paddles = engine.paddles
               /\ engine'.ball_position = engine.ball_position
               /\ engine'.scores = engine.scores ]_vars

(* C20: a call of move_ball in which the perimeter of the ball at its      *)
(* tentative position meets one or more regions of the paddles applies one *)
(* bounce, that of the first region met in the order player 0 then player  *)
(* 1 and, for each paddle, side, top, bottom: the horizontal direction is  *)
(* negated once, the vertical direction is -1 for a top, 1 for a bottom    *)
(* and one of -1, 0, 1 for a side, the rally counter of the owner of that  *)
(* region increases by exactly 1 and the other rally counter stays.        *)
C20_FirstMatchWins ==
    last.op = "move_ball" =>
      \A met \in {regions_met(last.before)} :
          met # {} =>
            \A first \in {examined[CHOOSE k \in met : \A other \in met : k <= other]} :
                /\ engine.current_ball_direction[1] = -last.before.current_ball_direction[1]
                /\ first[2] = "side" => engine.current_ball_direction[2] \in {-1, 0, 1}
                /\ first[2] = "top" => engine.current_ball_direction[2] = -1
                /\ first[2] = "bottom" => engine.current_ball_direction[2] = 1
                /\ engine.rally_counter[first[1]] = last.before.rally_counter[first[1]] + 1
                /\ engine.rally_counter[1 - first[1]]
                      = last.before.rally_counter[1 - first[1]]
                /\ engine.ball_position = last.before.ball_position

(* A tentative ball that meets the side and the top of the paddle of       *)
(* player 0, and leaves downward, as no bounce off a top does.             *)
C20_Witness ==
    /\ last.op = "move_ball"
    /\ {1, 2} \subseteq regions_met(last.before)
    /\ engine.current_ball_direction[2] = 1
    /\ engine.rally_counter[0] = last.before.rally_counter[0] + 1
    /\ engine.rally_counter[1] = last.before.rally_counter[1]

(* C21: in a tick the centre y of each paddle changes by at most           *)
(* PADDLE_MOVE_PIXELS, and one mover at most moves a paddle: the keys held *)
(* when the CPU flag of the player is off, the up key before the down key, *)
(* and the autopilot alone, whatever keys are held, when the flag is on.   *)
C21_PaddleSpeedLimit ==
    [][ last'.op = "update_game" =>
          /\ \A player \in 0..1 :
                Abs(engine'.paddles[player][2] - engine.paddles[player][2])
                    <= PADDLE_MOVE_PIXELS
          /\ \A player \in 0..1 :
                engine.cpus[player]
                => autopilot_step([engine' EXCEPT !.paddles = engine.paddles],
                                  engine', player)
          /\ ~engine.cpus[0]
                => manual_step(before_ball_moves(engine), engine', 0, "W", "S")
          /\ ~engine.cpus[1]
                => manual_step(before_ball_moves(engine), engine', 1, "O", "K") ]_vars

(* A paddle of a CPU level with the ball in flight up or down, after a     *)
(* tick during which a key of that player was held.                        *)
C21_Witness ==
    /\ last.op = "update_game"
    /\ engine.current_ball_direction[2] # 0
    /\ \/ engine.cpus[0] /\ controller.keys_held \cap {"W", "S"} # {}
          /\ engine.paddles[0][2] = engine.ball_position[2]
       \/ engine.cpus[1] /\ controller.keys_held \cap {"O", "K"} # {}
          /\ engine.paddles[1][2] = engine.ball_position[2]

in_band(e) ==
    /\ 2 * PADDLE_WIDTH < new_ball(e)[1]
    /\ new_ball(e)[1] < board_width - 2 * PADDLE_WIDTH

(* C22: whenever the tentative x of the ball is more than 2 * PADDLE_WIDTH *)
(* and less than board_width - 2 * PADDLE_WIDTH, the loop of               *)
(* check_paddle_collision without the test of the band finds no region met *)
(* either, and a call of move_ball leaves the horizontal direction, the    *)
(* speed and the rally counters; in every state check_paddle_collision     *)
(* with and without the test of the band find the same.                    *)
C22_Culling ==
    \A unculled \in {paddle_collision_unculled(last.before)} :
      /\ unculled = paddle_collision(last.before)
      /\ in_band(last.before) =>
            /\ unculled.branch = "none"
            /\ last.op = "move_ball" =>
                  /\ engine.current_ball_direction[1] = last.before.current_ball_direction[1]
                  /\ engine.ball_move_pixels = last.before.ball_move_pixels
                  /\ engine.rally_counter = last.before.rally_counter

(* The ball after a step that took it to the last place of the band next   *)
(* to a paddle.                                                            *)
C22_Witness ==
    /\ last.op = "move_ball"
    /\ in_band(last.before)
    /\ initialised(last.before)
    /\ \/ new_ball(last.before)[1] - PADDLE_MOVE_PIXELS <= 2 * PADDLE_WIDTH
       \/ new_ball(last.before)[1] + PADDLE_MOVE_PIXELS >= board_width - 2 * PADDLE_WIDTH
    /\ engine.ball_position = new_ball(last.before)
    /\ ~in_band(engine)

(***************************************************************************)
(* The variant of src/main.py.  Its engine has no cpus and no band in      *)
(* which the collision tests are skipped, keeps paddle_move_pixels as a    *)
(* field, draws the speed from 4..10 x 4..10, samples the ball with 72     *)
(* points and the arcs of a paddle with 15, ends the game at 3 points, and *)
(* its reset also assigns the paddles.  check_wall_collision,              *)
(* get_circle_points and get_rounded_rectangle_points read as in Pong.py   *)
(* and are modelled by the same operators.                                 *)
(***************************************************************************)
main_ball_move_amounts == (4..10) \X (4..10)

main_Engine(width, height) ==
    [ ball_move_pixels |-> <<10, 5>>,
      current_ball_direction |-> <<0, 0>>,
      ball_position |-> <<0, 0>>,
      paddles |-> [player \in 0..1 |-> <<0, 0>>],
      paddle_move_pixels |-> 10,
      scores |-> [player \in 0..1 |-> 0],
      rally_counter |-> [player \in 0..1 |-> 0] ]

main_reset(e, direction) ==
    LET initial_paddle_y == board_height \div 2
    IN  [e EXCEPT !.current_ball_direction = direction,
                  !.rally_counter = [player \in 0..1 |-> 0],
                  !.ball_position = <<board_width \div 2, board_height \div 2>>,
                  !.paddles = [player \in 0..1 |->
                      IF player = 0
                      THEN <<0 + PADDLE_WIDTH \div 2, initial_paddle_y>>
                      ELSE <<board_width - PADDLE_WIDTH \div 2, initial_paddle_y>>]]

main_initialise(e, direction) ==
    main_reset([e EXCEPT !.scores = [player \in 0..1 |-> 0]], direction)

main_check_ball_collision(e, player, new_y, offset) ==
    LET paddle == e.paddles[player]
    IN  \E ball_perimeter \in {get_circle_points(e.ball_position, BALL_RADIUS, 72, 0, 4)},
           paddle_perimeter \in
               {get_rounded_rectangle_points(<<paddle[1], new_y>>,
                                             PADDLE_WIDTH, offset, 10, 15)} :
           IF ~isdisjoint(paddle_perimeter[2], ball_perimeter) THEN TRUE
           ELSE IF ~isdisjoint(paddle_perimeter[3], ball_perimeter) THEN TRUE
           ELSE FALSE

main_move_paddle(e, player, direction) ==
    LET candidate == e.paddles[player][2] + e.paddle_move_pixels * direction
        new_y == IF direction > 0
                 THEN Min(candidate, board_height - paddle_sizes[player] \div 2 - 1)
                 ELSE Max(candidate, paddle_sizes[player] \div 2 + 1)
    IN  [e EXCEPT !.paddles[player] =
            << e.paddles[player][1],
               IF \/ check_wall_collision(new_y, paddle_sizes[player] \div 2)
                  \/ main_check_ball_collision(e, player, new_y, paddle_sizes[player])
               THEN e.paddles[player][2]
               ELSE new_y >>]

(***************************************************************************)
(* The branch that the loop of check_paddle_collision takes for a paddle,  *)
(* and the first branch taken in the loop with its player.                 *)
(***************************************************************************)
main_paddle_branch(ball_perimeter, paddle, player) ==
    The({ IF ~isdisjoint(ball_perimeter, paddle_perimeter[player]) THEN "side"
          ELSE IF ~isdisjoint(ball_perimeter, paddle_perimeter[2]) THEN "top"
          ELSE IF ~isdisjoint(ball_perimeter, paddle_perimeter[3]) THEN "bottom"
          ELSE "none" :
          paddle_perimeter \in
              {get_rounded_rectangle_points(paddle, PADDLE_WIDTH, paddle_sizes[player], 10, 15)} })

main_later_paddle(ball_perimeter, e) ==
    The({ IF second # "none" THEN [branch |-> second, player |-> 1] ELSE NoHit :
          second \in {main_paddle_branch(ball_perimeter, e.paddles[1], 1)} })

main_paddle_collision(e) ==
    The(UNION { { IF first # "none" THEN [branch |-> first, player |-> 0]
                  ELSE main_later_paddle(ball_perimeter, e) :
                  first \in {main_paddle_branch(ball_perimeter, e.paddles[0], 0)} } :
                ball_perimeter \in
                    {get_circle_points(new_ball(e), BALL_RADIUS, 72, 0, 4)} })

main_check_paddle_collision(e, random_y, random_amount) ==
    LET current_x == e.current_ball_direction[1]
    IN  The({ [ returns |-> hit.branch # "none",
                engine |->
                    IF hit.branch = "none" THEN e
                    ELSE [e EXCEPT !.current_ball_direction =
                                       << -current_x,
                                          CASE hit.branch = "side" -> random_y
                                            [] hit.branch = "top" -> -1
                                            [] hit.branch = "bottom" -> 1 >>,
                                   !.ball_move_pixels = random_amount,
                                   !.rally_counter[hit.player] = @ + 1] ] :
              hit \in {main_paddle_collision(e)} })

main_move_ball(e, random_y, random_amount) ==
    LET current_x_dir == e.current_ball_direction[1]
        current_y_dir == e.current_ball_direction[2]
        new_x == new_ball(e)[1]
        new_y == new_ball(e)[2]
    IN  The({ IF call.returns
              THEN call.engine
              ELSE IF check_wall_collision(new_y, BALL_RADIUS)
              THEN [e EXCEPT !.current_ball_direction = <<current_x_dir, -current_y_dir>>,
                             !.ball_position =
                                 << new_x,
                                    e.ball_position[2]
                                        + (-current_y_dir) * e.ball_move_pixels[2] >>]
              ELSE [e EXCEPT !.ball_position = <<new_x, new_y>>] :
              call \in {main_check_paddle_collision(e, random_y, random_amount)} })

main_check_goal_result(e) ==
    LET new_x == new_ball(e)[1]
    IN  IF new_x <= BALL_RADIUS THEN "two"
        ELSE IF new_x >= board_width - BALL_RADIUS THEN "one"
        ELSE "none"

main_check_goal(e) ==
    CASE main_check_goal_result(e) = "two" -> [e EXCEPT !.scores[1] = @ + 1]
      [] main_check_goal_result(e) = "one" -> [e EXCEPT !.scores[0] = @ + 1]
      [] OTHER -> e

(* The messages that check_game_over emits, in the order of the players.   *)
main_check_game_over(e) ==
    (IF e.scores[0] = 3 THEN << "Player One won!" >> ELSE << >>)
        \o (IF e.scores[1] = 3 THEN << "Player Two won!" >> ELSE << >>)

main_Keys == { "W", "S", "O", "K", "Space" }

main_init_game(c, direction) ==
    [c EXCEPT !.engine = main_initialise(c.engine, direction),
              !.playing = TRUE,
              !.timer = TRUE]

main_Controller(direction) ==
    main_init_game([ engine |-> main_Engine(WIDTH, HEIGHT),
                     timer |-> FALSE,
                     paused |-> FALSE,
                     playing |-> TRUE,
                     keys_held |-> {} ],
                   direction)

(* The slot of the signal game_over, called once for each message.         *)
main_game_over(c, direction) ==
    [c EXCEPT !.timer = FALSE,
              !.playing = FALSE,
              !.engine = main_initialise(c.engine, direction)]

main_key_move(c, e, player, up, down) ==
    IF up \in c.keys_held THEN main_move_paddle(e, player, -1)
    ELSE IF down \in c.keys_held THEN main_move_paddle(e, player, 1)
    ELSE e

(***************************************************************************)
(* update_game up to the key blocks: the game-over check with the slot of  *)
(* its signal, and the goal check with the reset that follows a goal.      *)
(***************************************************************************)
main_before_keys(c, over_direction, goal_direction) ==
    LET c1 == IF Len(main_check_game_over(c.engine)) > 0
              THEN main_game_over(c, over_direction)
              ELSE c
    IN  IF main_check_goal_result(c1.engine) # "none"
        THEN [c1 EXCEPT !.engine = main_reset(main_check_goal(c1.engine), goal_direction)]
        ELSE c1

main_update_game(c, over_direction, goal_direction, random_y, random_amount) ==
    The(UNION { { [c2 EXCEPT !.engine =
                      main_move_ball(main_key_move(c2, e3, 1, "O", "K"),
                                     random_y, random_amount)] :
                  e3 \in {main_key_move(c2, c2.engine, 0, "W", "S")} } :
                c2 \in {main_before_keys(c, over_direction, goal_direction)} })

main_pause_game(c) ==
    IF ~c.playing THEN c
    ELSE IF ~c.paused THEN [c EXCEPT !.timer = FALSE, !.paused = TRUE]
    ELSE c

main_un_pause_game(c) ==
    IF ~c.playing THEN c
    ELSE [c EXCEPT !.paused = FALSE, !.timer = TRUE]

main_toggle_pause_game(c) ==
    IF ~c.playing THEN c
    ELSE IF c.timer THEN main_pause_game(c)
    ELSE main_un_pause_game(c)

main_keyPressEvent(c, key) ==
    LET held == [c EXCEPT !.keys_held = @ \cup {key}]
    IN  IF key = "Space" THEN main_toggle_pause_game(held) ELSE held

main_keyReleaseEvent(c, key) == [c EXCEPT !.keys_held = @ \ {key}]

(***************************************************************************)
(* Events of the controller of main.py.                                    *)
(***************************************************************************)
main_NoCall ==
    [ op |-> "construct", over |-> << >>, goal |-> "none", bounce |-> "none",
      bouncer |-> -1, reset_from |-> main_Engine(WIDTH, HEIGHT),
      reset_to |-> main_Engine(WIDTH, HEIGHT) ]

main_UpdateGame ==
    /\ controller.timer
    /\ count.ticks < MaxTicks
    /\ \E over \in {main_check_game_over(controller.engine)} :
       \E over_direction \in (IF Len(over) > 0 THEN ball_directions ELSE {<<0, 0>>}) :
       \E c1 \in {IF Len(over) > 0 THEN main_game_over(controller, over_direction)
                  ELSE controller} :
       \E goal \in {main_check_goal_result(c1.engine)} :
       \E goal_direction \in (IF goal # "none" THEN ball_directions ELSE {<<0, 0>>}) :
       \E c2 \in {main_before_keys(controller, over_direction, goal_direction)} :
       \E e4 \in {main_key_move(c2, main_key_move(c2, c2.engine, 0, "W", "S"), 1, "O", "K")} :
       \E hit \in {main_paddle_collision(e4)} :
          /\ \E random_y \in random_y_choices(hit) :
             \E random_amount \in (IF hit.branch # "none" THEN main_ball_move_amounts
                                   ELSE {e4.ball_move_pixels}) :
                controller' = main_update_game(controller, over_direction, goal_direction,
                                               random_y, random_amount)
          /\ last' = [main_NoCall EXCEPT
                         !.op = "update_game",
                         !.over = over,
                         !.goal = goal,
                         !.bounce = IF hit.branch # "none" THEN hit.branch
                                    ELSE IF check_wall_collision(new_ball(e4)[2], BALL_RADIUS)
                                    THEN "wall"
                                    ELSE "none",
                         !.bouncer = IF hit.branch # "none" THEN hit.player ELSE -1,
                         !.reset_from = main_check_goal(c1.engine),
                         !.reset_to = c2.engine]
          /\ count' = [count EXCEPT !.ticks = @ + 1]

main_KeyPress ==
    /\ count.events < MaxEvents
    /\ \E key \in main_Keys :
          /\ controller' = main_keyPressEvent(controller, key)
          /\ last' = [main_NoCall EXCEPT !.op = "keyPressEvent"]
    /\ count' = [count EXCEPT !.events = @ + 1]

main_KeyRelease ==
    /\ count.events < MaxEvents
    /\ \E key \in controller.keys_held :
          /\ controller' = main_keyReleaseEvent(controller, key)
          /\ last' = [main_NoCall EXCEPT !.op = "keyReleaseEvent"]
    /\ count' = [count EXCEPT !.events = @ + 1]

main_MenuShow ==
    /\ count.events < MaxEvents
    /\ controller' = main_pause_game(controller)
    /\ last' = [main_NoCall EXCEPT !.op = "pause_game"]
    /\ count' = [count EXCEPT !.events = @ + 1]

main_MenuHide ==
    /\ count.events < MaxEvents
    /\ controller' = main_un_pause_game(controller)
    /\ last' = [main_NoCall EXCEPT !.op = "un_pause_game"]
    /\ count' = [count EXCEPT !.events = @ + 1]

main_Restart ==
    /\ count.events < MaxEvents
    /\ \E direction \in ball_directions :
          controller' = main_init_game(controller, direction)
    /\ last' = [main_NoCall EXCEPT !.op = "init_game"]
    /\ count' = [count EXCEPT !.events = @ + 1]

RECURSIVE main_play(_, _)
main_play(c, script) ==
    IF Len(script) = 0 THEN c
    ELSE IF Len(script) > 1
    THEN The({ main_play(half, SubSeq(script, Len(script) \div 2 + 1, Len(script))) :
               half \in {main_play(c, SubSeq(script, 1, Len(script) \div 2))} })
    ELSE The({ CASE step.op = "press" -> main_keyPressEvent(c, step.key)
                 [] step.op = "release" -> main_keyReleaseEvent(c, step.key)
                 [] step.op = "ticks" /\ (step.n = 0 \/ ~c.timer) -> c
                 [] step.op = "ticks" /\ step.n = 1 /\ c.timer ->
                        main_update_game(c, step.direction, step.direction,
                                         0, c.engine.ball_move_pixels)
                 [] OTHER ->
                        main_play(c, << Ticks(step.n \div 2, step.direction),
                                        Ticks(step.n - step.n \div 2, step.direction) >>) :
               step \in {script[1]} })

(***************************************************************************)
(* Starting states of main.py, each a script played from the controller as *)
(* constructed, with the direction of the first serve: the construction    *)
(* alone; a paddle moved by a key for five ticks and the ball then 71      *)
(* ticks after a serve that leaves the board past a paddle; and the same   *)
(* with the key still held.                                                *)
(***************************************************************************)
main_Constructed == { << direction, << >> >> : direction \in ball_directions }

main_Moved ==
    { << direction,
         << Press(key), Ticks(5, direction), Release(key), Ticks(66, direction) >> >> :
        key \in {"S", "O"}, direction \in {<<1, 1>>, <<-1, -1>>} }

main_Held ==
    { << direction, << Press(key), Ticks(71, direction) >> >> :
        key \in {"W", "K"}, direction \in {<<1, 1>>, <<-1, -1>>} }

main_Starts ==
    { main_play(main_Controller(start[1]), start[2]) :
        start \in main_Constructed \cup main_Moved \cup main_Held }

InitMain ==
    /\ controller \in main_Starts
    /\ last = main_NoCall
    /\ count = NoCount

NextMain ==
    \/ main_UpdateGame
    \/ main_KeyPress
    \/ main_KeyRelease
    \/ main_MenuShow
    \/ main_MenuHide
    \/ main_Restart

SpecMain == InitMain /\ [][NextMain]_vars

(***************************************************************************)
(* C23.  In main.py, when a goal is scored and reset runs, both paddles    *)
(* keep the positions they had before the goal: the engine that reset      *)
(* leaves has the paddles and the scores of the engine it was called on,   *)
(* the rally counters at zero and the ball in the centre.                  *)
(***************************************************************************)
C23_MainResetKeepsPaddles ==
    [][ last'.op = "update_game" /\ last'.goal # "none" =>
          /\ last'.reset_to.paddles = last'.reset_from.paddles
          /\ last'.reset_to.paddles = engine.paddles
          /\ last'.reset_to.scores = last'.reset_from.scores
          /\ last'.reset_to.rally_counter = [player \in 0..1 |-> 0]
          /\ last'.reset_to.ball_position = <<board_width \div 2, board_height \div 2>> ]_vars

(***************************************************************************)
(* The straight edges of the paddle of a player, spelt out: the vertical   *)
(* edge at x = paddle_x + side * PADDLE_WIDTH // 2 and the horizontal edge *)
(* at y = paddle_y + side * paddle_sizes[player] // 2, each from one       *)
(* corner radius to the other.                                             *)
(***************************************************************************)
vertical_edge(e, player, side) ==
    { << e.paddles[player][1] + side * (PADDLE_WIDTH \div 2), y >> :
        y \in (e.paddles[player][2] - paddle_sizes[player] \div 2 + 10)
                 .. (e.paddles[player][2] + paddle_sizes[player] \div 2 - 10) }

horizontal_edge(e, player, side) ==
    { << x, e.paddles[player][2] + side * (paddle_sizes[player] \div 2) >> :
        x \in (e.paddles[player][1] - PADDLE_WIDTH \div 2 + 10)
                 .. (e.paddles[player][1] + PADDLE_WIDTH \div 2 - 10) }

(***************************************************************************)
(* C24.  get_rounded_rectangle_points returns the right edge, the left     *)
(* edge, the top region and the bottom region in this order: the first two *)
(* are the vertical edges at x = paddle_x + 30 and x = paddle_x - 30, the  *)
(* third holds the top edge and lies within two corner radii of it, the    *)
(* fourth likewise for the bottom edge.  A call of move_ball registers a   *)
(* side bounce for player 0 exactly when the loop runs and the perimeter   *)
(* of the ball at its tentative position meets the right edge of the left  *)
(* paddle, and for player 1 exactly when the loop runs, no region of the   *)
(* left paddle is met and the perimeter meets the left edge of the right   *)
(* paddle; the outer edge of a paddle has no part in it.                   *)
(***************************************************************************)
C24_BoardFacingEdge ==
    \A ball_perimeter \in {get_circle_points(new_ball(last.before), BALL_RADIUS, 360, 0, 4)} :
    \A player \in 0..1 :
    \A paddle_perimeter \in
        {get_rounded_rectangle_points(last.before.paddles[player], PADDLE_WIDTH,
                                      paddle_sizes[player], 10, 90)} :
      /\ paddle_perimeter[0] = vertical_edge(last.before, player, 1)
      /\ paddle_perimeter[1] = vertical_edge(last.before, player, -1)
      /\ horizontal_edge(last.before, player, -1) \subseteq paddle_perimeter[2]
      /\ horizontal_edge(last.before, player, 1) \subseteq paddle_perimeter[3]
      /\ \A point \in paddle_perimeter[2] :
            point[2] - (last.before.paddles[player][2] - paddle_sizes[player] \div 2) \in 0..20
      /\ \A point \in paddle_perimeter[3] :
            (last.before.paddles[player][2] + paddle_sizes[player] \div 2) - point[2] \in 0..20
      /\ last.op = "move_ball" =>
            ( last.bounce = "side" /\ last.bouncer = player
              <=> /\ ~in_band(last.before)
                  /\ ~isdisjoint(ball_perimeter,
                                 vertical_edge(last.before, player, 1 - 2 * player))
                  /\ player = 1 => regions_met(last.before) \cap 1..3 = {} )

C24_Witness ==
    /\ last.op = "move_ball"
    /\ last.bounce = "side"
    /\ last.bouncer = 0
    /\ ~isdisjoint(get_circle_points(new_ball(last.before), BALL_RADIUS, 360, 0, 4),
                   vertical_edge(last.before, 0, 1))
    /\ isdisjoint(get_circle_points(new_ball(last.before), BALL_RADIUS, 360, 0, 4),
                  vertical_edge(last.before, 0, -1))
    /\ engine.current_ball_direction[1] = 1

(***************************************************************************)
(* C25.  In every state of a game, which the constructor has initialised,  *)
(* reached by ticks and by key and menu events, the centre of the ball is  *)
(* strictly between the goal lines, BALL_RADIUS < x < board_width -        *)
(* BALL_RADIUS, and between the walls, BALL_RADIUS <= y <= board_height -  *)
(* BALL_RADIUS.                                                            *)
(***************************************************************************)
C25_BallClearOfGoals ==
    /\ BALL_RADIUS < engine.ball_position[1]
    /\ engine.ball_position[1] < board_width - BALL_RADIUS
    /\ BALL_RADIUS <= engine.ball_position[2]
    /\ engine.ball_position[2] <= board_height - BALL_RADIUS

(* The tick of a goal: the ball was one step from a goal line, and is one  *)
(* step from the centre.                                                   *)
C25_Witness ==
    /\ last.op = "update_game"
    /\ last.goal = "two"
    /\ engine.ball_position[1] =
          board_width \div 2 + engine.current_ball_direction[1] * engine.ball_move_pixels[1]
    /\ engine.scores[1] > 0

(***************************************************************************)
(* C26.  A tick in which a bounce is registered for player 0 ends with the *)
(* horizontal direction 1, and one in which a bounce is registered for     *)
(* player 1 ends with the horizontal direction -1: the ball leaves the     *)
(* paddle that it hit towards the other side of the board.                 *)
(***************************************************************************)
C26_BounceAwayFromPaddle ==
    [][ last'.op = "update_game" =>
          /\ last'.bouncer = 0 => engine'.current_ball_direction[1] = 1
          /\ last'.bouncer = 1 => engine'.current_ball_direction[1] = -1 ]_vars

(***************************************************************************)
(* Flights.  A specification of the ticks alone, for runs long enough for  *)
(* the ball to cross the board: count.ticks is the number of ticks so far  *)
(* and count.flight the number of ticks since the last tick with a paddle  *)
(* bounce or a goal.  The starting states are the controller as            *)
(* constructed, with no key held, with a key held that keeps a paddle at   *)
(* its border, and with the CPUs switched on.  A run goes on up to its     *)
(* second tick with a paddle bounce.                                       *)
(***************************************************************************)
MaxFlightTicks == 220
MaxFlightBounces == 2

FlightCount == [ calls |-> 0, events |-> 0, ticks |-> 0, bounces |-> 0, flight |-> 0 ]

FlightStarts ==
    { play(start[1], start[2]) :
        start \in Constructed
                     \cup { << Controller(direction), << Press(key) >> >> :
                               key \in {"W", "K"}, direction \in {<<1, 0>>, <<-1, 0>>} }
                     \cup { << Controller(direction),
                               << Press("D"), Release("D"), Press("J"), Release("J") >> >> :
                               direction \in {<<1, 0>>, <<-1, 1>>} } }

InitFlight ==
    /\ controller \in FlightStarts
    /\ last = NoCall
    /\ count = FlightCount

FlightTick ==
    /\ controller.timer
    /\ count.ticks < MaxFlightTicks
    /\ count.bounces < MaxFlightBounces
    /\ \E over_direction \in over_choices(controller) :
       \E goal_direction \in goal_choices(controller, over_direction) :
       \E c4 \in {before_move_ball(controller, over_direction, goal_direction)} :
       \E hit \in {paddle_collision(c4.engine)} :
       \E goal \in {goal_of(controller, over_direction)} :
          /\ \E random_y \in random_y_choices(hit) :
             \E random_amount \in random_amount_choices(c4.engine, hit) :
                controller' = from_move_ball(c4, hit, random_y, random_amount)
          /\ last' = [NoCall EXCEPT !.op = "update_game",
                                    !.over = check_game_over(controller.engine),
                                    !.goal = goal,
                                    !.bounce = bounce_of(c4.engine, hit),
                                    !.bouncer = IF hit.branch # "none" THEN hit.player ELSE -1]
          /\ count' = [count EXCEPT !.ticks = @ + 1,
                                    !.bounces = IF hit.branch # "none" THEN @ + 1 ELSE @,
                                    !.flight = IF hit.branch # "none" \/ goal # "None"
                                               THEN 0
                                               ELSE @ + 1]

NextFlight == FlightTick

SpecFlight == InitFlight /\ [][NextFlight]_vars

(***************************************************************************)
(* C27.  A run of consecutive ticks with neither a paddle bounce nor a     *)
(* goal has at most (board_width - 2 * BALL_RADIUS) / 10 ticks: while the  *)
(* timer keeps ticking, a paddle bounce or a goal comes within that many   *)
(* ticks.                                                                  *)
(***************************************************************************)
C27_FlightEnds == count.flight <= (board_width - 2 * BALL_RADIUS) \div 10

(* A flight from one paddle past the other, the tick before its goal.      *)
C27_Witness ==
    /\ last.op = "update_game"
    /\ count.flight >= (board_width - 4 * PADDLE_WIDTH) \div 10
    /\ engine.rally_counter[0] + engine.rally_counter[1] = 1
    /\ check_goal_result(engine) # "None"

(***************************************************************************)
(* C28.  In every state of a game the speed pair is one of                 *)
(* ball_move_amounts, 10..15 x 5..15; and the tick of a goal with its      *)
(* reset, the tick of a game over with its reset, and a restart with its   *)
(* initialise leave the speed pair as it was, so that the speed drawn by   *)
(* the last paddle bounce outlives them.                                   *)
(***************************************************************************)
C28_SpeedSurvivesReset ==
    [][ /\ engine.ball_move_pixels \in (10..15) \X (5..15)
        /\ engine'.ball_move_pixels \in (10..15) \X (5..15)
        /\ \/ last'.op = "init_game"
           \/ last'.op = "update_game" /\ (last'.goal # "None" \/ last'.over # "None")
           => engine'.ball_move_pixels = engine.ball_move_pixels ]_vars

(* A restart after a paddle bounce that drew the highest speed.            *)
C28_Witness ==
    /\ last.op = "init_game"
    /\ engine.ball_position = <<board_width \div 2, board_height \div 2>>
    /\ engine.ball_move_pixels = <<15, 15>>
    /\ engine.ball_move_pixels # Engine(board_width, board_height).ball_move_pixels

(***************************************************************************)
(* C29.  For a player whose CPU is on, a call of cpu_move_paddles leaves   *)
(* the vertical gap between the paddle and the ball no greater than it     *)
(* was, leaves the paddle on the side of the ball's y where it was or      *)
(* level with it, and leaves a paddle that is level with the ball where it *)
(* is.                                                                     *)
(***************************************************************************)
C29_AutopilotApproaches ==
    last.op = "cpu_move_paddles" =>
      \A player \in 0..1 :
         last.before.cpus[player] =>
            /\ gap_of(engine, player) <= gap_of(last.before, player)
            /\ (engine.paddles[player][2] - last.before.ball_position[2])
                   * (last.before.paddles[player][2] - last.before.ball_position[2]) >= 0
            /\ gap_of(last.before, player) = 0
                  => engine.paddles[player] = last.before.paddles[player]

(* A paddle less than a full step above or below the ball that the call    *)
(* brings closer without passing the ball.                                 *)
C29_Witness ==
    /\ last.op = "cpu_move_paddles"
    /\ \E player \in 0..1 :
          /\ last.before.cpus[player]
          /\ gap_of(last.before, player) \in 1..(PADDLE_MOVE_PIXELS - 1)
          /\ gap_of(engine, player) < gap_of(last.before, player)
          /\ engine.ball_position = last.before.ball_position

(***************************************************************************)
(* The candidate of move_paddle after its clamping to the limits.          *)
(***************************************************************************)
clamped_y(e, player, direction, pixels) ==
    IF direction > 0
    THEN Min(e.paddles[player][2] + pixels * direction,
             board_height - paddle_sizes[player] \div 2 - 1)
    ELSE Max(e.paddles[player][2] + pixels * direction,
             paddle_sizes[player] \div 2 + 1)

(***************************************************************************)
(* C30.  In a call of move_paddle for a paddle whose centre is within its  *)
(* range, check_wall_collision is false of the clamped candidate, and the  *)
(* paddle gets the clamped candidate unless check_ball_collision rejects   *)
(* it.  In a call that moves a paddle at y = 0, as the constructor leaves  *)
(* it, downwards, check_wall_collision is true of the candidate and the    *)
(* paddle stays at y = 0.                                                  *)
(***************************************************************************)
C30_WallCheckUnreachable ==
    last.op = "move_paddle" =>
      \A new_y \in {clamped_y(last.before, last.player, last.direction, last.pixels)} :
         /\ paddle_in_range(last.before, last.player) =>
               /\ ~check_wall_collision(new_y, paddle_sizes[last.player] \div 2)
               /\ engine.paddles[last.player][2] =
                     IF check_ball_collision(last.before, last.player, new_y,
                                             paddle_sizes[last.player])
                     THEN last.before.paddles[last.player][2]
                     ELSE new_y
         /\ last.before.paddles[last.player][2] = 0 /\ last.direction > 0 =>
               /\ check_wall_collision(new_y, paddle_sizes[last.player] \div 2)
               /\ engine.paddles[last.player][2] = 0

(* A downward move of a paddle of the engine as constructed, whose         *)
(* candidate the ball does not overlap.                                    *)
C30_Witness ==
    /\ last.op = "move_paddle"
    /\ last.direction = 1
    /\ last.before.paddles[last.player][2] = 0
    /\ ~check_ball_collision(last.before, last.player,
                             clamped_y(last.before, last.player, last.direction, last.pixels),
                             paddle_sizes[last.player])
    /\ engine.paddles[last.player][2] = 0

=============================================================================
